---- MODULE Spec2Model ----
(***************************************************************************)
(* A model of the 6502 interpreter core of rust-nes-emulator (src/cpu.rs): *)
(* the CPU struct, the Mem bus, load / reset / run_with_callback and the   *)
(* instruction handlers, as a state machine driven by a host.              *)
(***************************************************************************)
EXTENDS Integers, Sequences, FiniteSets, TLC

VARIABLES
    cpu,              \* the CPU struct (registers, status, memory) + whether a panic unwound it
    phase,            \* where control is: "host", "fetch", "callback", "returned", "panicked"
    overflow_checks,  \* build profile: TRUE = `+` panics on overflow (debug), FALSE = it wraps
    prev,             \* the CPU struct as it was before the latest action
    calls,            \* the host's two latest API calls, with what they returned
    host_ops,         \* how many assignments and bus calls the host has made
    stage,            \* the CPU's lifecycle: "new", "loaded", "reset"
    instr_count,      \* instructions run_with_callback has completed
    cb_count          \* times run_with_callback has invoked the callback

vars == <<cpu, phase, overflow_checks, prev, calls, host_ops, stage, instr_count, cb_count>>

(***************************************************************************)
(* Bounds of the model.                                                    *)
(***************************************************************************)
MaxBusOps == 2     \* bus calls the host makes in SpecBus
MaxHostOps == 1    \* register assignments / pokes the host makes before a run
MaxSteps == 6      \* instructions one run may complete

(***************************************************************************)
(* Integer helpers: u8 / u16 arithmetic as Rust computes it.               *)
(***************************************************************************)
PANIC == 0 - 1     \* the value of a computation that panicked

U8 == 0..255
U16 == 0..65535

Bit(v, i) == (v \div (2 ^ i)) % 2

BitAnd(a, b) ==
    LET t(i) == (Bit(a, i) * Bit(b, i)) * (2 ^ i)
    IN  t(0) + t(1) + t(2) + t(3) + t(4) + t(5) + t(6) + t(7)

BitOr(a, b) ==
    LET t(i) == (IF Bit(a, i) + Bit(b, i) > 0 THEN 1 ELSE 0) * (2 ^ i)
    IN  t(0) + t(1) + t(2) + t(3) + t(4) + t(5) + t(6) + t(7)

BitXor(a, b) ==
    LET t(i) == ((Bit(a, i) + Bit(b, i)) % 2) * (2 ^ i)
    IN  t(0) + t(1) + t(2) + t(3) + t(4) + t(5) + t(6) + t(7)

\* u8::wrapping_add / wrapping_sub, u16::wrapping_add
wrapping_add_u8(a, b) == (a + b) % 256
wrapping_sub_u8(a, b) == (a - b + 256) % 256
wrapping_add_u16(a, b) == (a + b) % 65536

\* `a + b` on u16: panics when overflow checks are on, wraps when they are off
add_u16(a, b) ==
    IF a = PANIC \/ b = PANIC THEN PANIC
    ELSE IF a + b <= 65535 THEN a + b
    ELSE IF overflow_checks THEN PANIC
    ELSE (a + b) % 65536

\* `a - b` on u16
sub_u16(a, b) ==
    IF a = PANIC \/ b = PANIC THEN PANIC
    ELSE IF a - b >= 0 THEN a - b
    ELSE IF overflow_checks THEN PANIC
    ELSE (a - b + 65536) % 65536

\* `x as i8` then `as u16`: sign extension of a byte to 16 bits
i8_as_u16(b) == IF b >= 128 THEN b + 65280 ELSE b

\* `x as i8` as a mathematical integer
signed8(b) == IF b >= 128 THEN b - 256 ELSE b

(***************************************************************************)
(* CpuFlags (bitflags over u8).                                            *)
(***************************************************************************)
CARRY == 1
ZERO == 2
INTERRUPT_DISABLE == 4
DECIMAL_MODE == 8
BREAK == 16
BREAK2 == 32
OVERFLOW == 64
NEGATIV == 128

contains(status, flag) == (status \div flag) % 2 = 1
insert(status, flag) == IF contains(status, flag) THEN status ELSE status + flag
remove(status, flag) == IF contains(status, flag) THEN status - flag ELSE status
set(status, flag, value) == IF value THEN insert(status, flag) ELSE remove(status, flag)

STACK == 256
STACK_RESET == 253
MEMORY_LEN == 65535     \* memory: [u8; 0xFFFF]
LOAD_ADDRESS == 1536    \* 0x0600
RESET_VECTOR == 65532   \* 0xFFFC
STATUS_RESET == 36      \* 0b100100

(***************************************************************************)
(* The memory array.  It is zero-filled by new(); the model stores only    *)
(* the non-zero bytes, so equal arrays are equal values.                   *)
(***************************************************************************)
ZeroMemory == [a \in {} |-> 0]

Peek(memory, addr) == IF addr \in DOMAIN memory THEN memory[addr] ELSE 0

Poke(memory, addr, data) ==
    IF data = 0
    THEN [a \in (DOMAIN memory) \ {addr} |-> memory[a]]
    ELSE [a \in (DOMAIN memory) \cup {addr} |-> IF a = addr THEN data ELSE memory[a]]

panic(c) == [c EXCEPT !.panicked = TRUE]

\* impl Mem for CPU: indexing memory[addr as usize] panics outside the array
mem_read(c, addr) ==
    IF addr = PANIC \/ addr >= MEMORY_LEN THEN PANIC ELSE Peek(c.memory, addr)

mem_write_bug_no_store(c, addr, data) ==
    IF c.panicked THEN c
    ELSE IF addr = PANIC \/ addr >= MEMORY_LEN THEN panic(c)
    ELSE c

mem_write(c, addr, data) ==
    IF c.panicked THEN c
    ELSE IF addr = PANIC \/ addr >= MEMORY_LEN THEN panic(c)
    ELSE [c EXCEPT !.memory = Poke(c.memory, addr, data)]

mem_read_u16_bug_big_endian(c, pos) ==
    LET lo == mem_read(c, pos)
        hi == IF lo = PANIC THEN PANIC ELSE mem_read(c, add_u16(pos, 1))
    IN  IF lo = PANIC \/ hi = PANIC THEN PANIC ELSE lo * 256 + hi

\* Mem::mem_read_u16: lo at pos, then hi at pos + 1
mem_read_u16(c, pos) ==
    LET lo == mem_read(c, pos)
        hi == IF lo = PANIC THEN PANIC ELSE mem_read(c, add_u16(pos, 1))
    IN  IF lo = PANIC \/ hi = PANIC THEN PANIC ELSE hi * 256 + lo

\* Mem::mem_write_u16: lo at pos, then hi at pos + 1
mem_write_u16(c, pos, data) ==
    LET hi == data \div 256
        lo == data % 256
    IN  mem_write(mem_write(c, pos, lo), add_u16(pos, 1), hi)

(***************************************************************************)
(* CPU::new                                                                *)
(***************************************************************************)
new ==
    [ register_a      |-> 0,
      register_x      |-> 0,
      register_y      |-> 0,
      stack_pointer   |-> STACK_RESET,
      program_counter |-> 0,
      status          |-> STATUS_RESET,
      memory          |-> ZeroMemory,
      panicked        |-> FALSE ]

Init ==
    /\ cpu = new
    /\ phase = "host"
    /\ overflow_checks \in BOOLEAN
    /\ prev = new
    /\ calls = << >>
    /\ host_ops = 0
    /\ stage = "new"
    /\ instr_count = 0
    /\ cb_count = 0

\* A program (Vec<u8>) is held as its length and its non-zero bytes by 0-based
\* index, the same way the memory array is.
Vec(bytes) ==
    [ len |-> Len(bytes),
      bytes |-> [i \in {j \in 0..(Len(bytes) - 1) : bytes[j + 1] # 0} |-> bytes[i + 1]] ]

ByteAt(program, i) == IF i \in DOMAIN program.bytes THEN program.bytes[i] ELSE 0

Call(op, addr, data, ret) ==
    [op |-> op, addr |-> addr, data |-> data, ret |-> ret, program |-> Vec(<< >>)]

CallWith(op, program) ==
    [op |-> op, addr |-> 0, data |-> 0, ret |-> 0, program |-> program]

\* the two latest calls
Record(call) == IF Len(calls) < 2 THEN Append(calls, call) ELSE <<calls[2], call>>
LastCall == calls[Len(calls)]
CallBefore == calls[Len(calls) - 1]

\* the host's call returns to it, or unwinds with a panic
AfterCall(c) == IF c.panicked THEN "panicked" ELSE "host"

(***************************************************************************)
(* The host's bus calls (the Mem trait is public).                         *)
(***************************************************************************)
BusAddrs == {0, 255, 256, 65532, 65534, 65535}
BusBytes == {0, 85, 255}
BusWords == {1536, 65535}

HostMemWrite(addr, data) ==
    /\ phase = "host"
    /\ cpu' = mem_write(cpu, addr, data)
    /\ phase' = AfterCall(cpu')
    /\ prev' = cpu
    /\ calls' = Record(Call("mem_write", addr, data, 0))
    /\ host_ops' = host_ops + 1
    /\ UNCHANGED <<overflow_checks, stage, instr_count, cb_count>>

HostMemRead(addr) ==
    /\ phase = "host"
    /\ LET v == mem_read(cpu, addr)
       IN  /\ cpu' = IF v = PANIC THEN panic(cpu) ELSE cpu
           /\ calls' = Record(Call("mem_read", addr, 0, v))
    /\ phase' = AfterCall(cpu')
    /\ prev' = cpu
    /\ host_ops' = host_ops + 1
    /\ UNCHANGED <<overflow_checks, stage, instr_count, cb_count>>

HostMemWriteU16(addr, data) ==
    /\ phase = "host"
    /\ cpu' = mem_write_u16(cpu, addr, data)
    /\ phase' = AfterCall(cpu')
    /\ prev' = cpu
    /\ calls' = Record(Call("mem_write_u16", addr, data, 0))
    /\ host_ops' = host_ops + 1
    /\ UNCHANGED <<overflow_checks, stage, instr_count, cb_count>>

HostMemReadU16(addr) ==
    /\ phase = "host"
    /\ LET v == mem_read_u16(cpu, addr)
       IN  /\ cpu' = IF v = PANIC THEN panic(cpu) ELSE cpu
           /\ calls' = Record(Call("mem_read_u16", addr, 0, v))
    /\ phase' = AfterCall(cpu')
    /\ prev' = cpu
    /\ host_ops' = host_ops + 1
    /\ UNCHANGED <<overflow_checks, stage, instr_count, cb_count>>

BusWrite == \E a \in BusAddrs, b \in BusBytes : host_ops < MaxBusOps /\ HostMemWrite(a, b)
BusRead == \E a \in BusAddrs : host_ops < MaxBusOps /\ HostMemRead(a)
BusWriteU16 == \E a \in BusAddrs, w \in BusWords : host_ops < MaxBusOps /\ HostMemWriteU16(a, w)
BusReadU16 == \E a \in BusAddrs : host_ops < MaxBusOps /\ HostMemReadU16(a)

NextBus == BusWrite \/ BusRead \/ BusWriteU16 \/ BusReadU16

SpecBus == Init /\ [][NextBus]_vars

(***************************************************************************)
(* The addressing-mode resolver.                                           *)
(***************************************************************************)
get_operand_address_bug_leaves_page_zero(c, mode) ==
    LET pc == c.program_counter
    IN  CASE mode = "Immediate" -> pc
          [] mode = "ZeroPage" -> mem_read(c, pc)
          [] mode = "Absolute" -> mem_read_u16(c, pc)
          [] mode = "ZeroPage_X" -> mem_read(c, pc) + c.register_x
          [] mode = "ZeroPage_Y" -> mem_read(c, pc) + c.register_y
          [] mode = "Absolute_X" -> wrapping_add_u16(mem_read_u16(c, pc), c.register_x)
          [] mode = "Absolute_Y" -> wrapping_add_u16(mem_read_u16(c, pc), c.register_y)
          [] mode = "Indirect_X" ->
                LET ptr == wrapping_add_u8(mem_read(c, pc), c.register_x)
                IN  mem_read(c, ptr + 1) * 256 + mem_read(c, ptr)
          [] mode = "Indirect_Y" ->
                LET ptr == wrapping_add_u8(mem_read(c, pc), c.register_y)
                IN  mem_read(c, ptr + 1) * 256 + mem_read(c, ptr)
          [] OTHER -> PANIC

get_operand_address(c, mode) ==
    LET pc == c.program_counter
    IN  CASE mode = "Immediate" -> pc
          [] mode = "ZeroPage" -> mem_read(c, pc)
          [] mode = "Absolute" -> mem_read_u16(c, pc)
          [] mode = "ZeroPage_X" ->
                LET pos == mem_read(c, pc)
                IN  IF pos = PANIC THEN PANIC ELSE wrapping_add_u8(pos, c.register_x)
          [] mode = "ZeroPage_Y" ->
                LET pos == mem_read(c, pc)
                IN  IF pos = PANIC THEN PANIC ELSE wrapping_add_u8(pos, c.register_y)
          [] mode = "Absolute_X" ->
                LET base == mem_read_u16(c, pc)
                IN  IF base = PANIC THEN PANIC ELSE wrapping_add_u16(base, c.register_x)
          [] mode = "Absolute_Y" ->
                LET base == mem_read_u16(c, pc)
                IN  IF base = PANIC THEN PANIC ELSE wrapping_add_u16(base, c.register_y)
          [] mode = "Indirect_X" ->
                LET base == mem_read(c, pc)
                    ptr == wrapping_add_u8(base, c.register_x)
                    lo == mem_read(c, ptr)
                    hi == mem_read(c, wrapping_add_u8(ptr, 1))
                IN  IF base = PANIC THEN PANIC ELSE hi * 256 + lo
          [] mode = "Indirect_Y" ->
                LET base == mem_read(c, pc)
                    ptr == wrapping_add_u8(base, c.register_y)
                    lo == mem_read(c, ptr)
                    hi == mem_read(c, wrapping_add_u8(ptr, 1))
                IN  IF base = PANIC THEN PANIC ELSE hi * 256 + lo
          [] OTHER -> PANIC     \* NoneAddressing: panic!("mode ... is not supported")

(***************************************************************************)
(* Flag and register helpers.                                              *)
(***************************************************************************)
update_zero_and_negative_flags_bug_zero_only(c, result) ==
    [c EXCEPT !.status = set(c.status, ZERO, result = 0)]

update_zero_and_negative_flags(c, result) ==
    [c EXCEPT !.status =
        set(set(c.status, ZERO, result = 0), NEGATIV, result \div 128 = 1)]

set_register_a(c, value) ==
    update_zero_and_negative_flags([c EXCEPT !.register_a = value], value)

set_carry_flag(c) == [c EXCEPT !.status = insert(c.status, CARRY)]
clear_carry_flag(c) == [c EXCEPT !.status = remove(c.status, CARRY)]

(***************************************************************************)
(* Loads, stores, logic, transfers.                                        *)
(***************************************************************************)
ldy(c, mode) ==
    LET data == mem_read(c, get_operand_address(c, mode))
    IN  IF data = PANIC THEN panic(c)
        ELSE update_zero_and_negative_flags([c EXCEPT !.register_y = data], data)

ldx(c, mode) ==
    LET data == mem_read(c, get_operand_address(c, mode))
    IN  IF data = PANIC THEN panic(c)
        ELSE update_zero_and_negative_flags([c EXCEPT !.register_x = data], data)

lda(c, mode) ==
    LET value == mem_read(c, get_operand_address(c, mode))
    IN  IF value = PANIC THEN panic(c) ELSE set_register_a(c, value)

sta(c, mode) == mem_write(c, get_operand_address(c, mode), c.register_a)
stx(c, mode) == mem_write(c, get_operand_address(c, mode), c.register_x)
sty(c, mode) == mem_write(c, get_operand_address(c, mode), c.register_y)

and(c, mode) ==
    LET data == mem_read(c, get_operand_address(c, mode))
    IN  IF data = PANIC THEN panic(c) ELSE set_register_a(c, BitAnd(data, c.register_a))

eor(c, mode) ==
    LET data == mem_read(c, get_operand_address(c, mode))
    IN  IF data = PANIC THEN panic(c) ELSE set_register_a(c, BitXor(data, c.register_a))

ora(c, mode) ==
    LET data == mem_read(c, get_operand_address(c, mode))
    IN  IF data = PANIC THEN panic(c) ELSE set_register_a(c, BitOr(data, c.register_a))

tax_bug_no_copy(c) == update_zero_and_negative_flags(c, c.register_x)

tax(c) ==
    update_zero_and_negative_flags([c EXCEPT !.register_x = c.register_a], c.register_a)

tay(c) ==
    update_zero_and_negative_flags([c EXCEPT !.register_y = c.register_a], c.register_a)

tsx(c) ==
    update_zero_and_negative_flags([c EXCEPT !.register_x = c.stack_pointer], c.stack_pointer)

txa(c) ==
    update_zero_and_negative_flags([c EXCEPT !.register_a = c.register_x], c.register_x)

txs(c) == [c EXCEPT !.stack_pointer = c.register_x]

tya(c) ==
    update_zero_and_negative_flags([c EXCEPT !.register_a = c.register_y], c.register_y)

(***************************************************************************)
(* Increments and decrements.                                              *)
(***************************************************************************)
inx_bug_saturating(c) ==
    LET r == IF c.register_x = 255 THEN 255 ELSE c.register_x + 1
    IN  update_zero_and_negative_flags([c EXCEPT !.register_x = r], r)

inx(c) ==
    LET r == wrapping_add_u8(c.register_x, 1)
    IN  update_zero_and_negative_flags([c EXCEPT !.register_x = r], r)

iny(c) ==
    LET r == wrapping_add_u8(c.register_y, 1)
    IN  update_zero_and_negative_flags([c EXCEPT !.register_y = r], r)

dex(c) ==
    LET r == wrapping_sub_u8(c.register_x, 1)
    IN  update_zero_and_negative_flags([c EXCEPT !.register_x = r], r)

dey(c) ==
    LET r == wrapping_sub_u8(c.register_y, 1)
    IN  update_zero_and_negative_flags([c EXCEPT !.register_y = r], r)

inc(c, mode) ==
    LET addr == get_operand_address(c, mode)
        data == mem_read(c, addr)
        r == wrapping_add_u8(data, 1)
    IN  IF data = PANIC THEN panic(c)
        ELSE update_zero_and_negative_flags(mem_write(c, addr, r), r)

dec(c, mode) ==
    LET addr == get_operand_address(c, mode)
        data == mem_read(c, addr)
        r == wrapping_sub_u8(data, 1)
    IN  IF data = PANIC THEN panic(c)
        ELSE update_zero_and_negative_flags(mem_write(c, addr, r), r)

(***************************************************************************)
(* ADC / SBC.                                                              *)
(***************************************************************************)
add_to_register_a_bug_overflow_is_carry(c, data) ==
    LET sum == c.register_a + data + (IF contains(c.status, CARRY) THEN 1 ELSE 0)
        c1 == [c EXCEPT !.status = set(set(c.status, CARRY, sum > 255), OVERFLOW, sum > 255)]
    IN  set_register_a(c1, sum % 256)

add_to_register_a(c, data) ==
    LET sum == c.register_a + data + (IF contains(c.status, CARRY) THEN 1 ELSE 0)
        carry == sum > 255
        result == sum % 256
        c1 == [c EXCEPT !.status = set(c.status, CARRY, carry)]
        v == BitAnd(BitAnd(BitXor(data, result), BitXor(result, c.register_a)), 128) # 0
        c2 == [c1 EXCEPT !.status = set(c1.status, OVERFLOW, v)]
    IN  set_register_a(c2, result)

\* i8::wrapping_neg, i8::wrapping_sub, `as u8`
wrapping_neg_i8(x) == IF x = 0 - 128 THEN 0 - 128 ELSE 0 - x
wrapping_sub_i8(x, y) == ((x - y + 128 + 256) % 256) - 128
i8_as_u8(x) == (x + 256) % 256

sbc_bug_twos_complement(c, mode) ==
    LET data == mem_read(c, get_operand_address(c, mode))
    IN  IF data = PANIC THEN panic(c)
        ELSE add_to_register_a(c, i8_as_u8(wrapping_neg_i8(signed8(data))))

sbc(c, mode) ==
    LET data == mem_read(c, get_operand_address(c, mode))
    IN  IF data = PANIC THEN panic(c)
        ELSE add_to_register_a(c,
                i8_as_u8(wrapping_sub_i8(wrapping_neg_i8(signed8(data)), 1)))

adc(c, mode) ==
    LET value == mem_read(c, get_operand_address(c, mode))
    IN  IF value = PANIC THEN panic(c) ELSE add_to_register_a(c, value)

(***************************************************************************)
(* The stack.                                                              *)
(***************************************************************************)
\* stack_pop returns the byte and leaves the CPU with SP incremented
stack_pop(c) ==
    LET sp == wrapping_add_u8(c.stack_pointer, 1)
        c1 == [c EXCEPT !.stack_pointer = sp]
    IN  [cpu |-> c1, value |-> mem_read(c1, STACK + sp)]

stack_push_bug_no_wrap(c, data) ==
    LET c1 == mem_write(c, STACK + c.stack_pointer, data)
    IN  [c1 EXCEPT !.stack_pointer = IF c.stack_pointer = 0 THEN 0
                                     ELSE c.stack_pointer - 1]

stack_push(c, data) ==
    LET c1 == mem_write(c, STACK + c.stack_pointer, data)
    IN  [c1 EXCEPT !.stack_pointer = wrapping_sub_u8(c.stack_pointer, 1)]

stack_push_u16(c, data) ==
    LET hi == data \div 256
        lo == data % 256
    IN  stack_push(stack_push(c, hi), lo)

stack_pop_u16(c) ==
    LET p1 == stack_pop(c)
        p2 == stack_pop(p1.cpu)
    IN  [cpu |-> p2.cpu, value |-> p2.value * 256 + p1.value]

pla(c) ==
    LET p == stack_pop(c)
    IN  set_register_a(p.cpu, p.value)

plp_bug_keeps_break(c) ==
    LET p == stack_pop(c)
    IN  [p.cpu EXCEPT !.status = insert(p.value, BREAK2)]

plp(c) ==
    LET p == stack_pop(c)
    IN  [p.cpu EXCEPT !.status = insert(remove(p.value, BREAK), BREAK2)]

php(c) == stack_push(c, insert(insert(c.status, BREAK), BREAK2))

(***************************************************************************)
(* Shifts and rotates.  `data << 1` on u8 drops bit 7.                     *)
(***************************************************************************)
shl_u8(data) == (data * 2) % 256
shr_u8(data) == data \div 2

asl_accumulator(c) ==
    LET data == c.register_a
        c1 == IF data \div 128 = 1 THEN set_carry_flag(c) ELSE clear_carry_flag(c)
    IN  set_register_a(c1, shl_u8(data))

asl(c, mode) ==
    LET addr == get_operand_address(c, mode)
        data == mem_read(c, addr)
        c1 == IF data \div 128 = 1 THEN set_carry_flag(c) ELSE clear_carry_flag(c)
        r == shl_u8(data)
    IN  IF data = PANIC THEN panic(c)
        ELSE update_zero_and_negative_flags(mem_write(c1, addr, r), r)

lsr_accumulator(c) ==
    LET data == c.register_a
        c1 == IF data % 2 = 1 THEN set_carry_flag(c) ELSE clear_carry_flag(c)
    IN  set_register_a(c1, shr_u8(data))

lsr(c, mode) ==
    LET addr == get_operand_address(c, mode)
        data == mem_read(c, addr)
        c1 == IF data % 2 = 1 THEN set_carry_flag(c) ELSE clear_carry_flag(c)
        r == shr_u8(data)
    IN  IF data = PANIC THEN panic(c)
        ELSE update_zero_and_negative_flags(mem_write(c1, addr, r), r)

rol(c, mode) ==
    LET addr == get_operand_address(c, mode)
        data == mem_read(c, addr)
        old_carry == contains(c.status, CARRY)
        c1 == IF data \div 128 = 1 THEN set_carry_flag(c) ELSE clear_carry_flag(c)
        r == IF old_carry THEN BitOr(shl_u8(data), 1) ELSE shl_u8(data)
    IN  IF data = PANIC THEN panic(c)
        ELSE update_zero_and_negative_flags(mem_write(c1, addr, r), r)

rol_accumulator(c) ==
    LET data == c.register_a
        old_carry == contains(c.status, CARRY)
        c1 == IF data \div 128 = 1 THEN set_carry_flag(c) ELSE clear_carry_flag(c)
        r == IF old_carry THEN BitOr(shl_u8(data), 1) ELSE shl_u8(data)
    IN  set_register_a(c1, r)

ror_bug_drops_carry_in(c, mode) ==
    LET addr == get_operand_address(c, mode)
        data == mem_read(c, addr)
        c1 == IF data % 2 = 1 THEN set_carry_flag(c) ELSE clear_carry_flag(c)
        r == shr_u8(data)
    IN  IF data = PANIC THEN panic(c)
        ELSE update_zero_and_negative_flags(mem_write(c1, addr, r), r)

ror(c, mode) ==
    LET addr == get_operand_address(c, mode)
        data == mem_read(c, addr)
        old_carry == contains(c.status, CARRY)
        c1 == IF data % 2 = 1 THEN set_carry_flag(c) ELSE clear_carry_flag(c)
        r == IF old_carry THEN BitOr(shr_u8(data), 128) ELSE shr_u8(data)
    IN  IF data = PANIC THEN panic(c)
        ELSE update_zero_and_negative_flags(mem_write(c1, addr, r), r)

ror_accumulator(c) ==
    LET data == c.register_a
        old_carry == contains(c.status, CARRY)
        c1 == IF data % 2 = 1 THEN set_carry_flag(c) ELSE clear_carry_flag(c)
        r == IF old_carry THEN BitOr(shr_u8(data), 128) ELSE shr_u8(data)
    IN  set_register_a(c1, r)

(***************************************************************************)
(* BIT, compare, branch.                                                   *)
(***************************************************************************)
bit_bug_never_clears(c, mode) ==
    LET data == mem_read(c, get_operand_address(c, mode))
        s1 == IF BitAnd(c.register_a, data) = 0 THEN insert(c.status, ZERO) ELSE c.status
        s2 == IF BitAnd(data, 128) > 0 THEN insert(s1, NEGATIV) ELSE s1
        s3 == IF BitAnd(data, 64) > 0 THEN insert(s2, OVERFLOW) ELSE s2
    IN  IF data = PANIC THEN panic(c) ELSE [c EXCEPT !.status = s3]

bit(c, mode) ==
    LET data == mem_read(c, get_operand_address(c, mode))
        s1 == set(c.status, ZERO, BitAnd(c.register_a, data) = 0)
        s2 == set(s1, NEGATIV, BitAnd(data, 128) > 0)
        s3 == set(s2, OVERFLOW, BitAnd(data, 64) > 0)
    IN  IF data = PANIC THEN panic(c) ELSE [c EXCEPT !.status = s3]

compare_bug_strict_carry(c, mode, compare_with) ==
    LET data == mem_read(c, get_operand_address(c, mode))
        c1 == [c EXCEPT !.status = set(c.status, CARRY, data < compare_with)]
    IN  IF data = PANIC THEN panic(c)
        ELSE update_zero_and_negative_flags(c1, wrapping_sub_u8(compare_with, data))

compare(c, mode, compare_with) ==
    LET data == mem_read(c, get_operand_address(c, mode))
        c1 == [c EXCEPT !.status = set(c.status, CARRY, data <= compare_with)]
    IN  IF data = PANIC THEN panic(c)
        ELSE update_zero_and_negative_flags(c1, wrapping_sub_u8(compare_with, data))

branch(c, condition) ==
    IF condition
    THEN LET jump == mem_read(c, c.program_counter)
             jump_addr == wrapping_add_u16(wrapping_add_u16(c.program_counter, 1),
                                           i8_as_u16(jump))
         IN  IF jump = PANIC THEN panic(c)
             ELSE [c EXCEPT !.program_counter = jump_addr]
    ELSE c

(***************************************************************************)
(* The opcode table (crate::opcodes::OPCODES_MAP): for each documented     *)
(* opcode its addressing mode and its encoded length.                      *)
(***************************************************************************)
ImmediateOps ==
    {\hA9, \hA2, \hA0, \h69, \hE9, \h29, \h49, \h09, \hC9, \hC0, \hE0}
ZeroPageOps ==
    {\hA5, \hA6, \hA4, \h65, \hE5, \h25, \h45, \h05, \hC5, \hC4, \hE4,
     \h85, \h86, \h84, \h46, \h06, \h26, \h66, \hE6, \hC6, \h24}
ZeroPageXOps ==
    {\hB5, \hB4, \h75, \hF5, \h35, \h55, \h15, \hD5, \h95, \h94,
     \h56, \h16, \h36, \h76, \hF6, \hD6}
ZeroPageYOps == {\hB6, \h96}
AbsoluteOps ==
    {\hAD, \hAE, \hAC, \h6D, \hED, \h2D, \h4D, \h0D, \hCD, \hCC, \hEC,
     \h8D, \h8E, \h8C, \h4E, \h0E, \h2E, \h6E, \hEE, \hCE, \h2C}
AbsoluteXOps ==
    {\hBD, \hBC, \h7D, \hFD, \h3D, \h5D, \h1D, \hDD, \h9D,
     \h5E, \h1E, \h3E, \h7E, \hFE, \hDE}
AbsoluteYOps == {\hB9, \hBE, \h79, \hF9, \h39, \h59, \h19, \hD9, \h99}
IndirectXOps == {\hA1, \h61, \hE1, \h21, \h41, \h01, \hC1, \h81}
IndirectYOps == {\hB1, \h71, \hF1, \h31, \h51, \h11, \hD1, \h91}
BranchOps == {\hD0, \h70, \h50, \h10, \h30, \hF0, \hB0, \h90}
JumpOps == {\h4C, \h6C, \h20}
ImpliedOps ==
    {\h00, \hEA, \hAA, \hA8, \hBA, \h8A, \h9A, \h98, \hE8, \hC8, \hCA, \h88,
     \h18, \hD8, \h58, \hB8, \h38, \hF8, \h78, \h48, \h08, \h68, \h28,
     \h60, \h40, \h0A, \h4A, \h2A, \h6A}

OPCODES_MAP ==
    ImmediateOps \cup ZeroPageOps \cup ZeroPageXOps \cup ZeroPageYOps \cup
    AbsoluteOps \cup AbsoluteXOps \cup AbsoluteYOps \cup IndirectXOps \cup
    IndirectYOps \cup BranchOps \cup JumpOps \cup ImpliedOps

OpMode(code) ==
    CASE code \in ImmediateOps -> "Immediate"
      [] code \in ZeroPageOps -> "ZeroPage"
      [] code \in ZeroPageXOps -> "ZeroPage_X"
      [] code \in ZeroPageYOps -> "ZeroPage_Y"
      [] code \in AbsoluteOps -> "Absolute"
      [] code \in AbsoluteXOps -> "Absolute_X"
      [] code \in AbsoluteYOps -> "Absolute_Y"
      [] code \in IndirectXOps -> "Indirect_X"
      [] code \in IndirectYOps -> "Indirect_Y"
      [] OTHER -> "NoneAddressing"

OpLen(code) ==
    CASE code \in ImpliedOps -> 1
      [] code \in AbsoluteOps \cup AbsoluteXOps \cup AbsoluteYOps \cup JumpOps -> 3
      [] OTHER -> 2

(***************************************************************************)
(* The match of run_with_callback: the handler of each opcode.             *)
(***************************************************************************)
LdaOps == {\hA9, \hA5, \hB5, \hAD, \hBD, \hB9, \hA1, \hB1}
LdxOps == {\hA2, \hA6, \hB6, \hAE, \hBE}
LdyOps == {\hA0, \hA4, \hB4, \hAC, \hBC}
StaOps == {\h85, \h95, \h8D, \h9D, \h99, \h81, \h91}
StxOps == {\h86, \h96, \h8E}
StyOps == {\h84, \h94, \h8C}
AdcOps == {\h69, \h65, \h75, \h6D, \h7D, \h79, \h61, \h71}
SbcOps == {\hE9, \hE5, \hF5, \hED, \hFD, \hF9, \hE1, \hF1}
AndOps == {\h29, \h25, \h35, \h2D, \h3D, \h39, \h21, \h31}
EorOps == {\h49, \h45, \h55, \h4D, \h5D, \h59, \h41, \h51}
OraOps == {\h09, \h05, \h15, \h0D, \h1D, \h19, \h01, \h11}
LsrOps == {\h46, \h56, \h4E, \h5E}
AslOps == {\h06, \h16, \h0E, \h1E}
RolOps == {\h26, \h36, \h2E, \h3E}
RorOps == {\h66, \h76, \h6E, \h7E}
IncOps == {\hE6, \hF6, \hEE, \hFE}
DecOps == {\hC6, \hD6, \hCE, \hDE}
CmpOps == {\hC9, \hC5, \hD5, \hCD, \hDD, \hD9, \hC1, \hD1}
CpyOps == {\hC0, \hC4, \hCC}
CpxOps == {\hE0, \hE4, \hEC}
BitOps == {\h24, \h2C}

jmp_absolute(c) ==
    LET mem_address == mem_read_u16(c, c.program_counter)
    IN  IF mem_address = PANIC THEN panic(c)
        ELSE [c EXCEPT !.program_counter = mem_address]

jmp_indirect(c) ==
    LET mem_address == mem_read_u16(c, c.program_counter)
        indirect_ref ==
            IF mem_address % 256 = 255
            THEN LET lo == mem_read(c, mem_address)
                     hi == mem_read(c, mem_address - 255)
                 IN  IF lo = PANIC \/ hi = PANIC THEN PANIC ELSE hi * 256 + lo
            ELSE mem_read_u16(c, mem_address)
    IN  IF mem_address = PANIC \/ indirect_ref = PANIC THEN panic(c)
        ELSE [c EXCEPT !.program_counter = indirect_ref]

jsr(c) ==
    LET ret == sub_u16(add_u16(c.program_counter, 2), 1)
        c1 == stack_push_u16(c, ret)
        target_address == mem_read_u16(c1, c.program_counter)
    IN  IF ret = PANIC THEN panic(c)
        ELSE IF target_address = PANIC THEN panic(c1)
        ELSE [c1 EXCEPT !.program_counter = target_address]

rts(c) ==
    LET p == stack_pop_u16(c)
        pc == add_u16(p.value, 1)
    IN  IF pc = PANIC THEN panic(p.cpu)
        ELSE [p.cpu EXCEPT !.program_counter = pc]

rti(c) ==
    LET p == stack_pop(c)
        c1 == [p.cpu EXCEPT !.status = insert(remove(p.value, BREAK), BREAK2)]
        q == stack_pop_u16(c1)
    IN  [q.cpu EXCEPT !.program_counter = q.value]

execute(c, code) ==
    LET mode == OpMode(code)
        st == c.status
    IN  CASE code \in LdaOps -> lda(c, mode)
          [] code = \hAA -> tax(c)
          [] code = \hE8 -> inx(c)
          [] code = \hD8 -> [c EXCEPT !.status = remove(st, DECIMAL_MODE)]
          [] code = \h58 -> [c EXCEPT !.status = remove(st, INTERRUPT_DISABLE)]
          [] code = \hB8 -> [c EXCEPT !.status = remove(st, OVERFLOW)]
          [] code = \h78 -> [c EXCEPT !.status = insert(st, INTERRUPT_DISABLE)]
          [] code = \hF8 -> [c EXCEPT !.status = insert(st, DECIMAL_MODE)]
          [] code = \h48 -> stack_push(c, c.register_a)
          [] code = \h18 -> clear_carry_flag(c)
          [] code = \h38 -> set_carry_flag(c)
          [] code = \h68 -> pla(c)
          [] code = \h08 -> php(c)
          [] code = \h28 -> plp(c)
          [] code \in AdcOps -> adc(c, mode)
          [] code \in SbcOps -> sbc(c, mode)
          [] code \in AndOps -> and(c, mode)
          [] code \in EorOps -> eor(c, mode)
          [] code \in OraOps -> ora(c, mode)
          [] code = \h4A -> lsr_accumulator(c)
          [] code \in LsrOps -> lsr(c, mode)
          [] code = \h0A -> asl_accumulator(c)
          [] code \in AslOps -> asl(c, mode)
          [] code = \h2A -> rol_accumulator(c)
          [] code \in RolOps -> rol(c, mode)
          [] code = \h6A -> ror_accumulator(c)
          [] code \in RorOps -> ror(c, mode)
          [] code \in IncOps -> inc(c, mode)
          [] code = \hC8 -> iny(c)
          [] code \in DecOps -> dec(c, mode)
          [] code = \hCA -> dex(c)
          [] code = \h88 -> dey(c)
          [] code \in CmpOps -> compare(c, mode, c.register_a)
          [] code \in CpyOps -> compare(c, mode, c.register_y)
          [] code \in CpxOps -> compare(c, mode, c.register_x)
          [] code = \h4C -> jmp_absolute(c)
          [] code = \h6C -> jmp_indirect(c)
          [] code = \h20 -> jsr(c)
          [] code = \h60 -> rts(c)
          [] code = \h40 -> rti(c)
          [] code = \hD0 -> branch(c, ~contains(st, ZERO))
          [] code = \h70 -> branch(c, contains(st, OVERFLOW))
          [] code = \h50 -> branch(c, ~contains(st, OVERFLOW))
          [] code = \h10 -> branch(c, ~contains(st, NEGATIV))
          [] code = \h30 -> branch(c, contains(st, NEGATIV))
          [] code = \hF0 -> branch(c, contains(st, ZERO))
          [] code = \hB0 -> branch(c, contains(st, CARRY))
          [] code = \h90 -> branch(c, ~contains(st, CARRY))
          [] code \in BitOps -> bit(c, mode)
          [] code \in StaOps -> sta(c, mode)
          [] code \in StxOps -> stx(c, mode)
          [] code \in StyOps -> sty(c, mode)
          [] code \in LdxOps -> ldx(c, mode)
          [] code \in LdyOps -> ldy(c, mode)
          [] code = \hEA -> c
          [] code = \hA8 -> tay(c)
          [] code = \hBA -> tsx(c)
          [] code = \h8A -> txa(c)
          [] code = \h9A -> txs(c)
          [] code = \h98 -> tya(c)
          [] OTHER -> panic(c)      \* todo!()

(***************************************************************************)
(* One iteration of the loop of run_with_callback, up to the callback:     *)
(* fetch, PC += 1, table lookup, match, operand skip.                      *)
(***************************************************************************)
Outcome(c, outcome) == [cpu |-> c, outcome |-> outcome]

skip_operands_bug_full_length(c, program_counter_state, code) ==
    IF c.panicked THEN c
    ELSE IF c.program_counter = program_counter_state
    THEN IF add_u16(c.program_counter, OpLen(code)) = PANIC THEN panic(c)
         ELSE [c EXCEPT !.program_counter = add_u16(c.program_counter, OpLen(code))]
    ELSE c

\* if program_counter_state == self.program_counter { self.program_counter += len - 1 }
\* (not reached when the handler panicked)
skip_operands(c, program_counter_state, code) ==
    IF c.panicked THEN c
    ELSE IF c.program_counter = program_counter_state
    THEN IF add_u16(c.program_counter, OpLen(code) - 1) = PANIC THEN panic(c)
         ELSE [c EXCEPT !.program_counter = add_u16(c.program_counter, OpLen(code) - 1)]
    ELSE c

\* the iteration ends in the callback, unless it panicked on the way
to_callback(c) == Outcome(c, IF c.panicked THEN "panic" ELSE "callback")

dispatch_bug_brk_pushes(c, code) ==
    IF code = 0 THEN Outcome(stack_push(c, c.status), "return")
    ELSE to_callback(skip_operands(execute(c, code), c.program_counter, code))

dispatch_bug_skips_unknown(c, code) ==
    IF code \notin OPCODES_MAP THEN to_callback(c)
    ELSE IF code = 0 THEN Outcome(c, "return")
    ELSE to_callback(skip_operands(execute(c, code), c.program_counter, code))

dispatch_bug_brk_continues(c, code) ==
    IF code \notin OPCODES_MAP THEN Outcome(panic(c), "panic")
    ELSE to_callback(skip_operands(execute(c, code), c.program_counter, code))

\* c is the CPU after `self.program_counter += 1`, code the byte fetched
dispatch(c, code) ==
    IF code \notin OPCODES_MAP THEN Outcome(panic(c), "panic")    \* unwrap() of None
    ELSE IF code = 0 THEN Outcome(c, "return")
    ELSE to_callback(skip_operands(execute(c, code), c.program_counter, code))

fetch(c, code) ==
    IF code = PANIC \/ add_u16(c.program_counter, 1) = PANIC
    THEN Outcome(panic(c), "panic")
    ELSE dispatch([c EXCEPT !.program_counter = add_u16(c.program_counter, 1)], code)

step(c) == fetch(c, mem_read(c, c.program_counter))

(***************************************************************************)
(* reset, load.                                                            *)
(***************************************************************************)
reset_bug_keeps_x(c) ==
    LET c1 == [c EXCEPT !.register_a = 0,
                        !.register_y = 0,
                        !.stack_pointer = STACK_RESET,
                        !.status = STATUS_RESET]
        pc == mem_read_u16(c1, RESET_VECTOR)
    IN  IF pc = PANIC THEN panic(c1) ELSE [c1 EXCEPT !.program_counter = pc]

\* CPU::reset
reset(c) ==
    LET c1 == [c EXCEPT !.register_a = 0,
                        !.register_x = 0,
                        !.register_y = 0,
                        !.stack_pointer = STACK_RESET,
                        !.status = STATUS_RESET]
        pc == mem_read_u16(c1, RESET_VECTOR)
    IN  IF pc = PANIC THEN panic(c1) ELSE [c1 EXCEPT !.program_counter = pc]

\* memory[start .. start + len].copy_from_slice(program)
copy_from_slice(memory, start, program) ==
    LET range == start .. (start + program.len - 1)
        nonzero == {start + i : i \in DOMAIN program.bytes}
    IN  [a \in ((DOMAIN memory) \ range) \cup nonzero |->
            IF a \in nonzero THEN program.bytes[a - start] ELSE memory[a]]

load_bug_no_vector(c, program) ==
    IF LOAD_ADDRESS + program.len > MEMORY_LEN THEN panic(c)
    ELSE [c EXCEPT !.memory = copy_from_slice(c.memory, LOAD_ADDRESS, program)]

\* CPU::load: the slice index panics when its end is past the array, before
\* anything is copied
load(c, program) ==
    IF LOAD_ADDRESS + program.len > MEMORY_LEN THEN panic(c)
    ELSE mem_write_u16(
            [c EXCEPT !.memory = copy_from_slice(c.memory, LOAD_ADDRESS, program)],
            RESET_VECTOR, LOAD_ADDRESS)

(***************************************************************************)
(* The programs the host loads.                                            *)
(***************************************************************************)
TestPrograms ==
    { <<\hA9, \h05, \h00>>,                      \* test_0xa9_lda_immediate_load_data
      <<\hAA, \h00>>,                            \* test_0xaa_tax_move_a_to_x
      <<\hA9, \hC0, \hAA, \hE8, \h00>>,          \* test_5_ops_working_together
      <<\hE8, \h00>>,                            \* test_inx_overflow (cpu.rs)
      <<\hA5, \h10, \h00>>,                      \* test_lda_from_memory
      <<\hA9, \h00, \h00>>,
      <<\hA9, \h0A, \hAA, \h00>>,
      <<\hA9, \hFF, \hAA, \hE8, \hE8, \h00>>,
      <<\hE8, \hE8, \h00>> }                     \* test_inx_overflow (main.rs)

\* one instruction with the given operand bytes, then BRK
InstrProgram(code, b1, b2) ==
    CASE OpLen(code) = 1 -> <<code, 0>>
      [] OpLen(code) = 2 -> <<code, b1, 0>>
      [] OTHER -> <<code, b1, b2, 0>>

OperandPairs == { <<\h10, \h00>>, <<\hFF, \h01>> }
ImmediateValues == {\h00, \h01, \h7F, \h80}

InstrPrograms ==
    { InstrProgram(code, o[1], o[2]) : code \in OPCODES_MAP \ {0}, o \in OperandPairs }
    \cup { <<code, v, 0>> : code \in ImmediateOps, v \in ImmediateValues }

ScenarioPrograms ==
    { <<\hA9, \hFF, \h48, \h48, \h60>>,          \* LDA #$FF; PHA; PHA; RTS
      <<\h4C, \hFE, \hFF>>,                      \* JMP $FFFE
      <<\h4C, \h00, \h06>>,                      \* JMP $0600 (a loop)
      <<\h20, \h04, \h06, \h00, \hE8, \h60>>,    \* JSR $0604; BRK; INX; RTS
      <<\hE8, \hE8, \hE8, \hE8, \hE8, \hE8, \hE8, \h00>>,   \* seven INX
      <<\hA9, \hFF, \h8D, \h00, \h02, \hEE, \h00, \h02, \h00>>,
                                                 \* LDA #$FF; STA $0200; INC $0200; BRK
      <<\hA9, \h01, \h85, \h10, \hC6, \h10, \h00>>,   \* LDA #1; STA $10; DEC $10; BRK
      <<\hA9, \h7F, \h85, \h10, \hE6, \h10, \h00>>,   \* LDA #$7F; STA $10; INC $10; BRK
      <<\hA9, \h80, \h48, \hA9, \h00, \h68, \h00>>,   \* LDA #$80; PHA; LDA #0; PLA; BRK
      <<\hA0, \h7F, \hC8, \h00>>,               \* LDY #$7F; INY; BRK
      <<\hA9, \h80, \hAA, \h02>>,               \* LDA #$80; TAX; an undocumented byte
      <<\hA2, \h02, \hCA, \hD0, \hFD, \h00>>,   \* LDX #2; DEX; BNE -3; BRK
      <<\h4C, \h01, \h06>>,                      \* JMP $0601 (its own operand)
      <<\h20, \h01, \h06>>,                      \* JSR $0601 (its own operand)
      <<\h4C, \hFF, \hFF>>,                      \* JMP $FFFF
      <<\h6C, \h03, \h06, \h01, \h06>>,        \* JMP ($0603), which holds $0601
      <<\h6C, \hFF, \h06>>,                      \* JMP ($06FF): high byte from $0600
      <<\h08, \h28, \h00>>,                      \* PHP; PLP; BRK
      <<\hA9, \hFF, \h48, \h28, \h00>>,        \* LDA #$FF; PHA; PLP; BRK
      <<\hA9, \hFF, \h48, \h48, \h48, \h40>>, \* LDA #$FF; PHA; PHA; PHA; RTI
      <<\h02>> }                                 \* not a documented opcode

\* a program of `n` bytes: zeroes, then one NOP as its last byte
LongProgram(n) == [len |-> n, bytes |-> [i \in {n - 1} |-> \hEA]]
LongPrograms == { LongProgram(n) : n \in {63996, 63997, 63999, 64000, 64001} }

Programs ==
    { Vec(p) : p \in TestPrograms \cup InstrPrograms \cup ScenarioPrograms }

HostPrograms == { Vec(p) : p \in TestPrograms } \cup LongPrograms

(***************************************************************************)
(* What the host does with the CPU before a run: it assigns the public     *)
(* registers, writes memory, loads, resets and runs.                       *)
(***************************************************************************)
Assignments ==
    { <<"register_a", v>> : v \in {\h0A, \h80, \hFF} }
    \cup { <<"register_x", v>> : v \in {\h01, \hFF} }
    \cup { <<"register_y", v>> : v \in {\h01, \hFF} }
    \cup { <<"stack_pointer", v>> : v \in {\h00, \hFF} }
    \cup { <<"status", v>> : v \in {\hE7} }

Pokes == { <<\h10, \h55>>, <<\h10, \hFF>>, <<\hFFFE, \hF0>> }
VectorPokes == { <<\hFFFC, \h10>> }

Stages == {"new", "loaded", "reset"}

\* the host assigns a public register field, in one of the given stages
HostAssign(stages) ==
    \E f \in Assignments :
        /\ phase = "host"
        /\ stage \in stages
        /\ host_ops < MaxHostOps
        /\ cpu' = [cpu EXCEPT ![f[1]] = f[2]]
        /\ phase' = "host"
        /\ prev' = cpu
        /\ calls' = Record(Call(f[1], 0, f[2], 0))
        /\ host_ops' = host_ops + 1
        /\ UNCHANGED <<overflow_checks, stage, instr_count, cb_count>>

HostPoke(stages, pokes) ==
    \E w \in pokes :
        stage \in stages /\ host_ops < MaxHostOps /\ HostMemWrite(w[1], w[2])

Load(programs) ==
    \E p \in programs :
        /\ phase = "host"
        /\ stage = "new"
        /\ cpu' = load(cpu, p)
        /\ phase' = AfterCall(cpu')
        /\ prev' = cpu
        /\ calls' = Record(CallWith("load", p))
        /\ stage' = "loaded"
        /\ UNCHANGED <<overflow_checks, host_ops, instr_count, cb_count>>

Reset ==
    /\ phase = "host"
    /\ stage = "loaded"
    /\ cpu' = reset(cpu)
    /\ phase' = AfterCall(cpu')
    /\ prev' = cpu
    /\ calls' = Record(Call("reset", 0, 0, 0))
    /\ stage' = "reset"
    /\ UNCHANGED <<overflow_checks, host_ops, instr_count, cb_count>>

\* run / run_with_callback: control enters the loop
Run ==
    /\ phase = "host"
    /\ stage = "reset"
    /\ phase' = "fetch"
    /\ prev' = cpu
    /\ calls' = Record(Call("run", 0, 0, 0))
    /\ UNCHANGED <<cpu, overflow_checks, host_ops, stage, instr_count, cb_count>>

\* load_and_run: load, reset, then the loop
LoadAndRun(programs) ==
    \E p \in programs :
        /\ phase = "host"
        /\ stage = "new"
        /\ \E c1 \in {load(cpu, p)} :
               cpu' = IF c1.panicked THEN c1 ELSE reset(c1)
        /\ phase' = IF cpu'.panicked THEN "panicked" ELSE "fetch"
        /\ prev' = cpu
        /\ calls' = Record(CallWith("load_and_run", p))
        /\ stage' = "reset"
        /\ UNCHANGED <<overflow_checks, host_ops, instr_count, cb_count>>

(***************************************************************************)
(* The loop of run_with_callback.                                          *)
(***************************************************************************)
Step ==
    /\ phase = "fetch"
    /\ instr_count < MaxSteps
    /\ \E r \in {step(cpu)} :
           /\ cpu' = r.cpu
           /\ phase' = CASE r.outcome = "panic" -> "panicked"
                         [] r.outcome = "return" -> "returned"
                         [] OTHER -> "callback"
           /\ instr_count' = IF r.outcome = "callback" THEN instr_count + 1
                             ELSE instr_count
    /\ prev' = cpu
    /\ UNCHANGED <<overflow_checks, calls, host_ops, stage, cb_count>>

\* callback(self) with the callback of run(): |_| {}
CallbackNone ==
    /\ phase = "callback"
    /\ phase' = "fetch"
    /\ cb_count' = cb_count + 1
    /\ prev' = cpu
    /\ UNCHANGED <<cpu, overflow_checks, calls, host_ops, stage, instr_count>>

\* callback(self) with a host callback that writes a BRK byte at the current PC
CallbackWriteBrk ==
    /\ phase = "callback"
    /\ cpu' = mem_write(cpu, cpu.program_counter, 0)
    /\ phase' = IF cpu'.panicked THEN "panicked" ELSE "fetch"
    /\ cb_count' = cb_count + 1
    /\ prev' = cpu
    /\ UNCHANGED <<overflow_checks, calls, host_ops, stage, instr_count>>

(***************************************************************************)
(* The stack helpers and the stack instructions, applied one at a time to  *)
(* a CPU whose public fields the host has set: every stack pointer, a      *)
(* non-zero accumulator, PC just past an opcode at $8000.  A call's record *)
(* keeps the stack pointer before the call in `addr`.                      *)
(***************************************************************************)
MaxStackOps == 2

InitStack ==
    /\ \E sp \in 0..255 :
           cpu = [new EXCEPT !.stack_pointer = sp, !.register_a = \hA5,
                             !.program_counter = \h8001]
    /\ phase = "host"
    /\ overflow_checks \in BOOLEAN
    /\ prev = new
    /\ calls = << >>
    /\ host_ops = 0
    /\ stage = "new"
    /\ instr_count = 0
    /\ cb_count = 0

StackPush ==
    \E data \in {\h5A, \hFF} :
        /\ phase = "host" /\ host_ops < MaxStackOps
        /\ cpu' = stack_push(cpu, data)
        /\ calls' = Record(Call("stack_push", cpu.stack_pointer, data, 0))
        /\ prev' = cpu
        /\ host_ops' = host_ops + 1
        /\ phase' = AfterCall(cpu')
        /\ UNCHANGED <<overflow_checks, stage, instr_count, cb_count>>

StackPop ==
    /\ phase = "host" /\ host_ops < MaxStackOps
    /\ \E p \in {stack_pop(cpu)} :
           /\ cpu' = p.cpu
           /\ calls' = Record(Call("stack_pop", cpu.stack_pointer, 0, p.value))
    /\ prev' = cpu
    /\ host_ops' = host_ops + 1
    /\ phase' = AfterCall(cpu')
    /\ UNCHANGED <<overflow_checks, stage, instr_count, cb_count>>

StackPushU16 ==
    \E data \in {\h12FE, \hFFFF} :
        /\ phase = "host" /\ host_ops < MaxStackOps
        /\ cpu' = stack_push_u16(cpu, data)
        /\ calls' = Record(Call("stack_push_u16", cpu.stack_pointer, data, 0))
        /\ prev' = cpu
        /\ host_ops' = host_ops + 1
        /\ phase' = AfterCall(cpu')
        /\ UNCHANGED <<overflow_checks, stage, instr_count, cb_count>>

StackPopU16 ==
    /\ phase = "host" /\ host_ops < MaxStackOps
    /\ \E p \in {stack_pop_u16(cpu)} :
           /\ cpu' = p.cpu
           /\ calls' = Record(Call("stack_pop_u16", cpu.stack_pointer, 0, p.value))
    /\ prev' = cpu
    /\ host_ops' = host_ops + 1
    /\ phase' = AfterCall(cpu')
    /\ UNCHANGED <<overflow_checks, stage, instr_count, cb_count>>

\* the match arm of PHA, PHP, PLA, PLP, JSR, RTS or RTI
StackInstr ==
    \E code \in {\h48, \h08, \h68, \h28, \h20, \h60, \h40} :
        /\ phase = "host" /\ host_ops < MaxStackOps
        /\ cpu' = execute(cpu, code)
        /\ calls' = Record(Call("execute", cpu.stack_pointer, code, 0))
        /\ prev' = cpu
        /\ host_ops' = host_ops + 1
        /\ phase' = AfterCall(cpu')
        /\ UNCHANGED <<overflow_checks, stage, instr_count, cb_count>>

NextStack == StackPush \/ StackPop \/ StackPushU16 \/ StackPopU16 \/ StackInstr

SpecStack == InitStack /\ [][NextStack]_vars

(***************************************************************************)
(* One arithmetic or compare instruction with an immediate operand, on a   *)
(* CPU the host has prepared: every accumulator value (X and Y derived     *)
(* from it, so that each takes every value too), CARRY and DECIMAL either  *)
(* way, and every operand byte, which the host writes at PC.  The arm runs *)
(* once; the loop is then at its callback.  These arms do no arithmetic    *)
(* that an overflow check guards (u16 sums of u8 values, wrapping_sub), so *)
(* one build profile stands for both.                                      *)
(***************************************************************************)
InitAlu ==
    /\ \E a \in 0..255, carry \in BOOLEAN, decimal \in BOOLEAN :
           cpu = [new EXCEPT
                     !.register_a = a,
                     !.register_x = BitXor(a, \hFF),
                     !.register_y = (a + \h55) % 256,
                     !.program_counter = \h8001,
                     !.status = set(set(STATUS_RESET, CARRY, carry), DECIMAL_MODE, decimal)]
    /\ phase = "host"
    /\ overflow_checks = FALSE
    /\ prev = new
    /\ calls = << >>
    /\ host_ops = 0
    /\ stage = "new"
    /\ instr_count = 0
    /\ cb_count = 0

\* the match arm of ADC #, SBC #, CMP #, CPX # or CPY # on the operand m
AluInstr ==
    /\ phase = "host"
    /\ \E code \in {\h69, \hE9, \hC9, \hE0, \hC0}, m \in 0..255 :
           /\ prev' = mem_write(cpu, cpu.program_counter, m)
           /\ cpu' = execute(prev', code)
           /\ calls' = Record(Call("execute", cpu.program_counter, code, 0))
    /\ phase' = "callback"
    /\ UNCHANGED <<overflow_checks, host_ops, stage, instr_count, cb_count>>

NextAlu == AluInstr

SpecAlu == InitAlu /\ [][NextAlu]_vars

(***************************************************************************)
(* One instruction that resolves an operand address, shifts or tests bits, *)
(* on a CPU the host has prepared.  A = X = d for every byte d;            *)
(* Y = d XOR k, which is also the byte at $10, for a few masks k; the      *)
(* operand byte at PC is $10 or $FF; $FF, $00 and $0100 hold three         *)
(* different bytes, so that a pointer read across the end of page 0 shows  *)
(* where its high byte came from; CARRY either way, and ZERO, OVERFLOW and *)
(* NEGATIVE all clear or all set.  The arm runs once; the loop is then at  *)
(* its callback.                                                           *)
(***************************************************************************)
InitInstr ==
    /\ \E d \in 0..255, k \in {\h00, \h0F, \hC0, \hFF}, b \in {\h10, \hFF},
          carry \in BOOLEAN, flags \in BOOLEAN :
           cpu = [new EXCEPT
                     !.register_a = d,
                     !.register_x = d,
                     !.register_y = BitXor(d, k),
                     !.program_counter = \h8001,
                     !.status = set(IF flags THEN \hE6 ELSE STATUS_RESET, CARRY, carry),
                     !.memory = Poke(Poke(Poke(Poke(Poke(ZeroMemory,
                                    \h0010, BitXor(d, k)),
                                    \h00FF, \h34),
                                    \h0000, \h02),
                                    \h0100, \h03),
                                    \h8001, b)]
    /\ phase = "host"
    /\ overflow_checks \in BOOLEAN
    /\ prev = new
    /\ calls = << >>
    /\ host_ops = 0
    /\ stage = "new"
    /\ instr_count = 0
    /\ cb_count = 0

\* the match arm of a store or load in each indexed mode, of a shift or
\* rotate in both forms, or of BIT
OneInstr ==
    /\ phase = "host"
    /\ \E code \in {\h95, \h96, \h81, \h91, \hB5, \hB6, \hA1, \hB1,
                    \h0A, \h06, \h4A, \h46, \h2A, \h26, \h6A, \h66,
                    \h24, \h2C} :
           /\ cpu' = execute(cpu, code)
           /\ calls' = Record(Call("execute", cpu.program_counter, code, 0))
    /\ phase' = IF cpu'.panicked THEN "panicked" ELSE "callback"
    /\ prev' = cpu
    /\ UNCHANGED <<overflow_checks, host_ops, stage, instr_count, cb_count>>

NextInstr == OneInstr

SpecInstr == InitInstr /\ [][NextInstr]_vars

\* Spec: every program; the host prepares registers and memory after reset()
Next ==
    \/ HostAssign({"reset"})
    \/ HostPoke({"reset"}, Pokes)
    \/ Load(Programs)
    \/ Reset
    \/ Run
    \/ LoadAndRun(Programs)
    \/ Step
    \/ CallbackNone
    \/ CallbackWriteBrk

\* SpecHost: the host assigns and writes at any stage; the programs of the tests
NextHost ==
    \/ HostAssign(Stages)
    \/ HostPoke(Stages, Pokes \cup VectorPokes)
    \/ Load(HostPrograms)
    \/ Reset
    \/ Run
    \/ LoadAndRun(HostPrograms)
    \/ Step
    \/ CallbackNone
    \/ CallbackWriteBrk

SpecHost == Init /\ [][NextHost]_vars

Spec == Init /\ [][Next]_vars

(***************************************************************************)
(* Properties.  `prev` is the CPU before the latest call or loop step and  *)
(* `calls` holds the two latest host calls, so a property of one call is   *)
(* a state predicate over prev, cpu and the call's record.                 *)
(***************************************************************************)
SameMemoryExcept(addrs) ==
    \A a \in ((DOMAIN cpu.memory) \cup (DOMAIN prev.memory)) \ addrs :
        Peek(cpu.memory, a) = Peek(prev.memory, a)

\* C8, as stated: the bus is a flat 64 KiB space.  For every address in
\* 0x0000..0xFFFF, 0xFFFF included, mem_write(a, b) does not fail, stores b at
\* a and changes no other address, and a following mem_read(a) returns b.
\* The array of the code has 0xFFFF bytes, so a = 0xFFFF fails.
C8_FlatBusIncludesFFFF ==
    /\ (calls # << >> /\ LastCall.op = "mem_write")
           => /\ ~cpu.panicked
              /\ Peek(cpu.memory, LastCall.addr) = LastCall.data
              /\ SameMemoryExcept({LastCall.addr})
    /\ (Len(calls) = 2 /\ CallBefore.op = "mem_write" /\ LastCall.op = "mem_read"
            /\ LastCall.addr = CallBefore.addr)
           => /\ ~cpu.panicked
              /\ LastCall.ret = CallBefore.data

\* C9, as stated: for every 16-bit address a, mem_read_u16(a) is
\* mem_read(a) | mem_read((a + 1) mod 2^16) << 8, mem_write_u16(a, v) stores
\* the low byte at a and the high byte at (a + 1) mod 2^16, and a following
\* mem_read_u16(a) returns v; a = 0xFFFF uses address 0x0000 for the high byte.
\* In the code a = 0xFFFF and a = 0xFFFE fail.
C9_WordAccessWrapsAddress ==
    /\ (calls # << >> /\ LastCall.op = "mem_read_u16")
           => /\ ~cpu.panicked
              /\ LastCall.ret = Peek(cpu.memory, LastCall.addr)
                     + 256 * Peek(cpu.memory, (LastCall.addr + 1) % 65536)
    /\ (calls # << >> /\ LastCall.op = "mem_write_u16")
           => /\ ~cpu.panicked
              /\ Peek(cpu.memory, LastCall.addr) = LastCall.data % 256
              /\ Peek(cpu.memory, (LastCall.addr + 1) % 65536) = LastCall.data \div 256
              /\ SameMemoryExcept({LastCall.addr, (LastCall.addr + 1) % 65536})
    /\ (Len(calls) = 2 /\ CallBefore.op = "mem_write_u16"
            /\ LastCall.op = "mem_read_u16" /\ LastCall.addr = CallBefore.addr)
           => /\ ~cpu.panicked
              /\ LastCall.ret = CallBefore.data

ProgramRange(program) == LOAD_ADDRESS .. (LOAD_ADDRESS + program.len - 1)
VectorBytes == {RESET_VECTOR, RESET_VECTOR + 1}
WordAt(memory, addr) == Peek(memory, addr) + 256 * Peek(memory, addr + 1)
Loaded == calls # << >> /\ LastCall.op = "load" /\ ~cpu.panicked
ResetAfterLoad ==
    Len(calls) = 2 /\ CallBefore.op = "load" /\ LastCall.op = "reset" /\ ~cpu.panicked

\* C3, as stated: for every program p that load accepts, after load(p)
\* memory[0x0600 + i] = p[i] for EVERY i < len(p), the word at $FFFC is 0x0600,
\* every other byte is unchanged, and a following reset() sets PC = 0x0600.
\* A program longer than 0xF9FC bytes reaches $FFFC, where load then stores
\* the vector over the program's bytes.
C3_LoadCopiesEveryByte ==
    /\ Loaded =>
           /\ \A a \in ProgramRange(LastCall.program) :
                  Peek(cpu.memory, a) = ByteAt(LastCall.program, a - LOAD_ADDRESS)
           /\ WordAt(cpu.memory, RESET_VECTOR) = LOAD_ADDRESS
           /\ SameMemoryExcept(ProgramRange(LastCall.program) \cup VectorBytes)
    /\ ResetAfterLoad => cpu.program_counter = LOAD_ADDRESS

\* C3, amended: after an accepted load(p), memory[0x0600 + i] = p[i] for every
\* i < len(p) whose address 0x0600 + i is not $FFFC or $FFFD; the word at
\* $FFFC-$FFFD is 0x0600 whatever p holds there; every byte outside the
\* program's range and the vector is unchanged, e.g. a byte the host wrote to
\* zero page beforehand; a following reset() sets PC = 0x0600.
C3_LoadCopiesProgramBelowVector ==
    /\ Loaded =>
           /\ \A a \in ProgramRange(LastCall.program) \ VectorBytes :
                  Peek(cpu.memory, a) = ByteAt(LastCall.program, a - LOAD_ADDRESS)
           /\ WordAt(cpu.memory, RESET_VECTOR) = LOAD_ADDRESS
           /\ SameMemoryExcept(ProgramRange(LastCall.program) \cup VectorBytes)
    /\ ResetAfterLoad => cpu.program_counter = LOAD_ADDRESS

\* a program that reaches past the vector is loaded over a byte the host wrote
\* to zero page, which stays
C3_Witness ==
    /\ Loaded
    /\ LastCall.program.len = 63999
    /\ Peek(cpu.memory, 65534) = \hEA
    /\ Peek(cpu.memory, \h10) = \h55

C5_TaxCopiesPresetA ==
    (Len(calls) = 2 /\ host_ops = 1 /\ CallBefore.op = "register_a"
        /\ LastCall.op = "load_and_run"
        /\ LastCall.program = Vec(<<\hAA, \h00>>) /\ phase = "returned")
       => cpu.register_x = CallBefore.data

(***************************************************************************)
(* Properties of one loop iteration.  At "callback" and "returned", prev   *)
(* is the CPU before the fetch of the instruction that has just run.       *)
(***************************************************************************)
Fetched == Peek(prev.memory, prev.program_counter)
AtCallback == phase = "callback"

BranchTaken(code, st) ==
    CASE code = \hD0 -> ~contains(st, 2)
      [] code = \hF0 -> contains(st, 2)
      [] code = \h10 -> ~contains(st, 128)
      [] code = \h30 -> contains(st, 128)
      [] code = \h50 -> ~contains(st, 64)
      [] code = \h70 -> contains(st, 64)
      [] code = \h90 -> ~contains(st, 1)
      [] code = \hB0 -> contains(st, 1)
      [] OTHER -> FALSE

\* a jump, JSR, RTS, RTI or a taken branch
TransfersControl(code, st) ==
    code \in {\h4C, \h6C, \h20, \h60, \h40} \/ BranchTaken(code, st)

\* C1: the loop returns exactly when the byte fetched at PC is 0x00 (BRK) and
\* at no other instruction; that BRK leaves PC at its address + 1 and changes
\* nothing else: no byte is pushed, SP, A, X, Y and P are as before the fetch
\* and no memory byte is written.
C1_ReturnsExactlyOnBrk ==
    [][ phase = "fetch" =>
            /\ (phase' = "returned") <=> (mem_read(cpu, cpu.program_counter) = 0)
            /\ (phase' = "returned") =>
                   cpu' = [cpu EXCEPT !.program_counter = cpu.program_counter + 1]
      ]_vars

\* a BRK reached after the program changed registers, stack and memory
C1_Witness ==
    /\ phase = "returned"
    /\ Fetched = 0
    /\ instr_count >= 3
    /\ cpu.register_a = \hFF
    /\ cpu.stack_pointer # \hFD
    /\ cpu.program_counter = prev.program_counter + 1

\* C2: the callback is invoked once after every executed instruction that does
\* not halt the loop, after that instruction's PC advancement and before the
\* next fetch: at a fetch as many callbacks as instructions have run, at a
\* callback one instruction more; for an instruction of length L at address a
\* that is not a jump, JSR, RTS, RTI or taken branch the callback observes
\* PC = a + L (mod 2^16); the halting BRK gets no callback.
C2_CallbackOncePerInstruction ==
    /\ AtCallback => instr_count = cb_count + 1
    /\ phase \in {"fetch", "returned"} => instr_count = cb_count
    /\ (AtCallback /\ ~TransfersControl(Fetched, prev.status))
           => cpu.program_counter = (prev.program_counter + OpLen(Fetched)) % 65536

\* the callback after the third instruction, a three-byte one
C2_Witness ==
    /\ AtCallback
    /\ instr_count = 3
    /\ cb_count = 2
    /\ OpLen(Fetched) = 3
    /\ ~TransfersControl(Fetched, prev.status)
    /\ cpu.program_counter = prev.program_counter + 3

\* the address the instruction that has just run operated on
EffectiveAddress ==
    get_operand_address(
        [prev EXCEPT !.program_counter = (prev.program_counter + 1) % 65536],
        OpMode(Fetched))

Unchanged(fields) == \A f \in fields : cpu[f] = prev[f]

\* the 8-bit result of an instruction that is defined to update Z/N from it;
\* -1 for every other instruction
ZNResult(code) ==
    CASE code \in LdaOps \cup AndOps \cup EorOps \cup OraOps \cup AdcOps \cup SbcOps
                  \cup {\h8A, \h98, \h68, \h0A, \h4A, \h2A, \h6A}
             -> cpu.register_a
      [] code \in LdxOps \cup {\hAA, \hBA, \hE8, \hCA} -> cpu.register_x
      [] code \in LdyOps \cup {\hA8, \hC8, \h88} -> cpu.register_y
      [] code \in IncOps \cup DecOps \cup AslOps \cup LsrOps \cup RolOps \cup RorOps
             -> Peek(cpu.memory, EffectiveAddress)
      [] code \in CmpOps
             -> (prev.register_a - Peek(prev.memory, EffectiveAddress) + 256) % 256
      [] code \in CpxOps
             -> (prev.register_x - Peek(prev.memory, EffectiveAddress) + 256) % 256
      [] code \in CpyOps
             -> (prev.register_y - Peek(prev.memory, EffectiveAddress) + 256) % 256
      [] OTHER -> 0 - 1

\* the program is in memory, untouched, and the run has executed its first n
\* instructions, which end at byte `offset`
RanPrefix(program, n, offset) ==
    /\ AtCallback
    /\ instr_count = n
    /\ cpu.program_counter = \h0600 + offset
    /\ \A i \in 1..Len(program) : Peek(cpu.memory, \h0600 + i - 1) = program[i]

\* C6: after every instruction that updates Z/N from a result (loads,
\* transfers to A, X or Y, AND/EOR/ORA, ADC/SBC, increments and decrements,
\* shifts and rotates, compares, PLA), at the callback ZERO = (result = 0) and
\* NEGATIVE = bit 7 of the result; LDA #v leaves A = v; LDA #$C0; TAX; INX
\* leaves X = 0xC1 with NEGATIVE set.
C6_ZeroNegativeFollowResult ==
    /\ (AtCallback /\ ZNResult(Fetched) >= 0)
           => /\ contains(cpu.status, 2) <=> (ZNResult(Fetched) = 0)
              /\ contains(cpu.status, 128) <=> (ZNResult(Fetched) >= 128)
    /\ (AtCallback /\ Fetched = \hA9)
           => cpu.register_a = Peek(prev.memory, prev.program_counter + 1)
    /\ RanPrefix(<<\hA9, \hC0, \hAA, \hE8, \h00>>, 3, 4)
           => /\ cpu.register_x = \hC1
              /\ contains(cpu.status, 128)
              /\ ~contains(cpu.status, 2)

C6_Witness ==
    /\ RanPrefix(<<\hA9, \hC0, \hAA, \hE8, \h00>>, 3, 4)
    /\ cpu.register_x = \hC1
    /\ contains(cpu.status, 128)

\* C7: INX, INY, DEX, DEY, INC and DEC add or subtract 1 modulo 256 and
\* change neither CARRY, OVERFLOW, A nor any register other than the target
\* (INC and DEC write only their operand's byte); n consecutive INX from
\* X = x0 leave X = (x0 + n) mod 256, and LDA #$FF; TAX; INX; INX leaves
\* X = 1 with ZERO clear.
C7_IncDecWrap ==
    /\ (AtCallback /\ Fetched \in {\hE8, \hCA})
           => /\ cpu.register_x
                    = (prev.register_x + (IF Fetched = \hE8 THEN 1 ELSE 255)) % 256
              /\ Unchanged({"register_a", "register_y", "stack_pointer", "memory"})
    /\ (AtCallback /\ Fetched \in {\hC8, \h88})
           => /\ cpu.register_y
                    = (prev.register_y + (IF Fetched = \hC8 THEN 1 ELSE 255)) % 256
              /\ Unchanged({"register_a", "register_x", "stack_pointer", "memory"})
    /\ (AtCallback /\ Fetched \in IncOps \cup DecOps)
           => /\ Peek(cpu.memory, EffectiveAddress)
                    = (Peek(prev.memory, EffectiveAddress)
                          + (IF Fetched \in IncOps THEN 1 ELSE 255)) % 256
              /\ SameMemoryExcept({EffectiveAddress})
              /\ Unchanged({"register_a", "register_x", "register_y", "stack_pointer"})
    /\ (AtCallback /\ Fetched \in {\hE8, \hCA, \hC8, \h88} \cup IncOps \cup DecOps)
           => /\ contains(cpu.status, 1) <=> contains(prev.status, 1)
              /\ contains(cpu.status, 64) <=> contains(prev.status, 64)
    /\ \A n \in 1..7 :
           (RanPrefix([i \in 1..n |-> \hE8], n, n) /\ Len(calls) = 2
                /\ CallBefore.op = "register_x" /\ LastCall.op = "run")
               => cpu.register_x = (CallBefore.data + n) % 256
    /\ RanPrefix(<<\hA9, \hFF, \hAA, \hE8, \hE8, \h00>>, 4, 5)
           => cpu.register_x = 1 /\ ~contains(cpu.status, 2)

\* the host set X = 0xFF after reset(); the second INX of the run has wrapped it
C7_Witness ==
    /\ RanPrefix(<<\hE8, \hE8>>, 2, 2)
    /\ Len(calls) = 2
    /\ CallBefore.op = "register_x" /\ CallBefore.data = \hFF
    /\ LastCall.op = "run"
    /\ cpu.register_x = 1
    /\ ~contains(cpu.status, 2)

\* the word RTS pops: low byte at STACK + SP + 1, high byte at STACK + SP + 2
ReturnWord(c) ==
    Peek(c.memory, 256 + ((c.stack_pointer + 1) % 256))
        + 256 * Peek(c.memory, 256 + ((c.stack_pointer + 2) % 256))

\* C10, as stated: every update of PC is arithmetic modulo 2^16 and never
\* fails.  RTS popping the word w completes with PC = (w + 1) mod 2^16, a
\* branch that is not taken at address a completes with PC = (a + 2) mod 2^16,
\* and at every callback A, X, Y, SP are bytes and PC is a 16-bit word.
\* The code adds with `+`, which panics on overflow in a build with overflow
\* checks.
C10_PcArithmeticWraps ==
    [][ (phase = "fetch" /\ phase' # "fetch") =>
            /\ (mem_read(cpu, cpu.program_counter) = \h60)
                   => /\ phase' = "callback"
                      /\ cpu'.program_counter = (ReturnWord(cpu) + 1) % 65536
            /\ (mem_read(cpu, cpu.program_counter) \in BranchOps
                    /\ ~BranchTaken(mem_read(cpu, cpu.program_counter), cpu.status))
                   => /\ phase' = "callback"
                      /\ cpu'.program_counter = (cpu.program_counter + 2) % 65536
            /\ (phase' = "callback")
                   => /\ cpu'.register_a \in U8 /\ cpu'.register_x \in U8
                      /\ cpu'.register_y \in U8 /\ cpu'.stack_pointer \in U8
                      /\ cpu'.program_counter \in U16
      ]_vars

\* C11: when the byte fetched at PC is not a documented opcode the run stops
\* with a fatal error: the step ends in a panic, not in the callback and not
\* in a return, neither counter of instructions or callbacks moves, nothing
\* but PC (already incremented by the fetch) is changed, and nothing is
\* executed after a panic.
C11_UnknownOpcodeIsFatal ==
    [][ /\ phase # "panicked"
        /\ (phase = "fetch" /\ mem_read(cpu, cpu.program_counter) \in (0..255) \ OPCODES_MAP)
               => /\ phase' = "panicked"
                  /\ cpu' = [cpu EXCEPT !.program_counter = cpu.program_counter + 1,
                                        !.panicked = TRUE]
                  /\ instr_count' = instr_count
                  /\ cb_count' = cb_count
      ]_vars

\* the byte 0x02 fetched after two instructions that loaded A and X
C11_Witness ==
    /\ phase = "panicked"
    /\ Fetched = \h02
    /\ prev.program_counter = \h0603
    /\ cpu.program_counter = \h0604
    /\ instr_count = 2
    /\ cb_count = 2
    /\ cpu.register_x = \h80

\* C12, as stated: load accepts every program of at most 0x10000 - 0x0600 =
\* 0xFA00 bytes and fails for every longer one.  The array of the code ends
\* at 0xFFFE, so the slice of a program of exactly 0xFA00 bytes is out of range.
C12_LoadAcceptsUpToFA00 ==
    (calls # << >> /\ LastCall.op = "load")
        => (cpu.panicked <=> LastCall.program.len > 64000)

\* C13: cooperative cancellation.  A callback that writes the byte 0x00 at
\* memory[PC] changes that byte alone and hands control back to the loop; the
\* loop's next fetch reads the byte and returns: no instruction is executed
\* and no callback invoked any more, and registers, flags, stack and memory
\* are as the callback left them, apart from PC advancing by 1.
C13_BrkWrittenByCallbackCancels ==
    [][ /\ phase # "returned"
        /\ (phase = "callback" /\ cpu'.memory # cpu.memory)
               => /\ phase' = "fetch"
                  /\ cpu' = [cpu EXCEPT !.memory = Poke(cpu.memory, cpu.program_counter, 0)]
                  /\ Peek(cpu'.memory, cpu'.program_counter) = 0
        /\ (phase = "fetch" /\ mem_read(cpu, cpu.program_counter) = 0)
               => /\ phase' = "returned"
                  /\ cpu' = [cpu EXCEPT !.program_counter = cpu.program_counter + 1]
                  /\ instr_count' = instr_count
                  /\ cb_count' = cb_count
      ]_vars

\* LDA #$C0; TAX; INX; BRK cancelled by the callback of its first instruction:
\* the TAX at $0602 was overwritten and never ran
C13_Witness ==
    /\ phase = "returned"
    /\ instr_count = 1
    /\ cb_count = 1
    /\ Peek(cpu.memory, \h0600) = \hA9 /\ Peek(cpu.memory, \h0601) = \hC0
    /\ Peek(cpu.memory, \h0602) = 0 /\ Peek(cpu.memory, \h0603) = \hE8
    /\ cpu.program_counter = \h0603
    /\ cpu.register_a = \hC0
    /\ cpu.register_x = 0

\* the address of the operand byte of the instruction that has just run
OperandAddress == (prev.program_counter + 1) % 65536
OperandByte == Peek(prev.memory, OperandAddress)
OnlyPcChanged == cpu = [prev EXCEPT !.program_counter = cpu.program_counter]

\* C14, as stated: for each branch whose offset byte o is at address p, when
\* the condition holds PC at the callback is (p + 1 + signed8(o)) mod 2^16 for
\* EVERY o in 0x00..0xFF, 0xFF included; when it does not hold PC is p + 1; in
\* both cases A, X, Y, SP, P and memory are unchanged.  With o = 0xFF the
\* target is p itself, which the operand skip takes for "PC not modified".
C14_BranchTarget ==
    (AtCallback /\ Fetched \in BranchOps)
        => /\ OnlyPcChanged
           /\ cpu.program_counter =
                  IF BranchTaken(Fetched, prev.status)
                  THEN (OperandAddress + 1
                           + (IF OperandByte >= 128 THEN OperandByte - 256 ELSE OperandByte)
                           + 65536) % 65536
                  ELSE (OperandAddress + 1) % 65536

\* the 16-bit operand of the instruction that has just run
OperandWord == WordAt(prev.memory, OperandAddress)

\* C15, as stated: after JMP absolute or JSR with operand t, PC at the
\* callback is t for every t in 0x0000..0xFFFF, t equal to the address of the
\* instruction's own first operand byte included.  For that t the operand skip
\* finds PC equal to the PC saved after the fetch and adds 2.
C15_JumpTargetNotClobbered ==
    (AtCallback /\ Fetched \in {\h4C, \h20}) => cpu.program_counter = OperandWord

StackAddress(sp) == 256 + (sp % 256)
JsrRtsProgram == <<\h20, \h04, \h06, \h00, \hE8, \h60>>     \* JSR $0604; BRK; INX; RTS

\* C16, as stated: JSR at address a pushes the word a + 2, high byte first so
\* that it sits at the higher stack address, and sets PC to its operand; RTS
\* sets PC to the word on top of the stack + 1 and takes the two bytes off, so
\* with a + 2 on top it resumes at a + 3 with SP as before the JSR; JSR $0604,
\* INX, RTS is back at $0603.  "PC = operand" fails for the JSR whose operand
\* is the address of its own first operand byte.
C16_JsrRtsRoundTrip ==
    /\ (AtCallback /\ Fetched = \h20)
           => /\ Peek(cpu.memory, StackAddress(prev.stack_pointer))
                     = ((prev.program_counter + 2) \div 256) % 256
              /\ Peek(cpu.memory, StackAddress(prev.stack_pointer + 255))
                     = (prev.program_counter + 2) % 256
              /\ cpu.stack_pointer = (prev.stack_pointer + 254) % 256
              /\ cpu.program_counter = OperandWord
              /\ SameMemoryExcept({StackAddress(prev.stack_pointer),
                                   StackAddress(prev.stack_pointer + 255)})
              /\ Unchanged({"register_a", "register_x", "register_y", "status"})
    /\ (AtCallback /\ Fetched = \h60)
           => /\ cpu.program_counter = (ReturnWord(prev) + 1) % 65536
              /\ cpu.stack_pointer = (prev.stack_pointer + 2) % 256
              /\ Unchanged({"register_a", "register_x", "register_y", "status", "memory"})
    /\ (RanPrefix(JsrRtsProgram, 3, 3) /\ Len(calls) = 2 /\ LastCall.op = "run")
           => /\ Fetched = \h60
              /\ cpu.stack_pointer = IF CallBefore.op = "stack_pointer"
                                     THEN CallBefore.data ELSE \hFD
              /\ cpu.register_x = (IF CallBefore.op = "register_x"
                                   THEN CallBefore.data + 1 ELSE 1) % 256

StackPage == 256..511
StackCall(op) == calls # << >> /\ LastCall.op = op
StackExec(code) == StackCall("execute") /\ LastCall.data = code
PulledStatus(b) == insert(remove(b, BREAK), BREAK2)

\* C17: for every stack pointer 0..255, the wrapping ones included, push
\* stores the byte at $0100 + SP and then decrements SP modulo 256, pop
\* increments SP modulo 256 and then reads $0100 + SP; push then pop returns
\* the byte, push_u16 then pop_u16 returns the word, each with SP restored;
\* and PHA, PHP, PLA, PLP, JSR, RTS and RTI touch the stack page only, at the
\* addresses SP gives.  (The one failure there is, is after the stack
\* accesses: the `+ 1` of RTS on the popped word $FFFF in a build with
\* overflow checks.)
C17_StackDiscipline ==
    /\ cpu.panicked => (StackExec(\h60) /\ overflow_checks /\ ReturnWord(prev) = \hFFFF)
    /\ StackCall("stack_push")
           => cpu = [prev EXCEPT
                        !.memory = Poke(prev.memory, StackAddress(prev.stack_pointer),
                                        LastCall.data),
                        !.stack_pointer = (prev.stack_pointer + 255) % 256]
    /\ StackCall("stack_pop")
           => /\ cpu = [prev EXCEPT !.stack_pointer = (prev.stack_pointer + 1) % 256]
              /\ LastCall.ret = Peek(prev.memory, StackAddress(prev.stack_pointer + 1))
    /\ StackCall("stack_push_u16")
           => cpu = [prev EXCEPT
                        !.memory = Poke(Poke(prev.memory,
                                             StackAddress(prev.stack_pointer),
                                             LastCall.data \div 256),
                                        StackAddress(prev.stack_pointer + 255),
                                        LastCall.data % 256),
                        !.stack_pointer = (prev.stack_pointer + 254) % 256]
    /\ StackCall("stack_pop_u16")
           => /\ cpu = [prev EXCEPT !.stack_pointer = (prev.stack_pointer + 2) % 256]
              /\ LastCall.ret = ReturnWord(prev)
    /\ (Len(calls) = 2 /\ CallBefore.op = "stack_push" /\ LastCall.op = "stack_pop")
           => /\ LastCall.ret = CallBefore.data
              /\ cpu.stack_pointer = CallBefore.addr
    /\ (Len(calls) = 2 /\ CallBefore.op = "stack_push_u16" /\ LastCall.op = "stack_pop_u16")
           => /\ LastCall.ret = CallBefore.data
              /\ cpu.stack_pointer = CallBefore.addr
    /\ StackCall("execute")
           => /\ SameMemoryExcept(StackPage)
              /\ (DOMAIN cpu.memory) \cap StackPage \subseteq
                     ((DOMAIN prev.memory) \cap StackPage)
                         \cup {StackAddress(prev.stack_pointer),
                               StackAddress(prev.stack_pointer + 255)}
    /\ StackExec(\h48)
           => cpu = [prev EXCEPT
                        !.memory = Poke(prev.memory, StackAddress(prev.stack_pointer),
                                        prev.register_a),
                        !.stack_pointer = (prev.stack_pointer + 255) % 256]
    /\ StackExec(\h08)
           => cpu = [prev EXCEPT
                        !.memory = Poke(prev.memory, StackAddress(prev.stack_pointer),
                                        insert(insert(prev.status, BREAK), BREAK2)),
                        !.stack_pointer = (prev.stack_pointer + 255) % 256]
    /\ StackExec(\h68)
           => /\ cpu.register_a = Peek(prev.memory, StackAddress(prev.stack_pointer + 1))
              /\ cpu.stack_pointer = (prev.stack_pointer + 1) % 256
    /\ StackExec(\h28)
           => cpu = [prev EXCEPT
                        !.status = PulledStatus(Peek(prev.memory,
                                       StackAddress(prev.stack_pointer + 1))),
                        !.stack_pointer = (prev.stack_pointer + 1) % 256]
    /\ StackExec(\h20)
           => /\ Peek(cpu.memory, StackAddress(prev.stack_pointer))
                     = (prev.program_counter + 1) \div 256
              /\ Peek(cpu.memory, StackAddress(prev.stack_pointer + 255))
                     = (prev.program_counter + 1) % 256
              /\ cpu.stack_pointer = (prev.stack_pointer + 254) % 256
    /\ StackExec(\h60)
           => cpu = [prev EXCEPT
                        !.program_counter = IF cpu.panicked THEN prev.program_counter
                                            ELSE (ReturnWord(prev) + 1) % 65536,
                        !.stack_pointer = (prev.stack_pointer + 2) % 256,
                        !.panicked = cpu.panicked]
    /\ StackExec(\h40)
           => cpu = [prev EXCEPT
                        !.status = PulledStatus(Peek(prev.memory,
                                       StackAddress(prev.stack_pointer + 1))),
                        !.program_counter =
                            Peek(prev.memory, StackAddress(prev.stack_pointer + 2))
                              + 256 * Peek(prev.memory, StackAddress(prev.stack_pointer + 3)),
                        !.stack_pointer = (prev.stack_pointer + 3) % 256]

\* a word pushed with SP = $00 (bytes at $0100 and $01FF) comes back whole
C17_Witness ==
    /\ Len(calls) = 2
    /\ CallBefore.op = "stack_push_u16"
    /\ CallBefore.addr = 0
    /\ LastCall.op = "stack_pop_u16"
    /\ LastCall.ret = \h12FE
    /\ Peek(cpu.memory, \h0100) = \h12
    /\ Peek(cpu.memory, \h01FF) = \hFE
    /\ cpu.stack_pointer = 0
    /\ prev.stack_pointer = \hFE

AluExec(code) ==
    phase = "callback" /\ calls # << >> /\ LastCall.op = "execute" /\ LastCall.data = code
AluOperand == Peek(prev.memory, prev.program_counter)
CarryIn == IF contains(prev.status, CARRY) THEN 1 ELSE 0
WithFlags(status, c, z, v, n) ==
    set(set(set(set(status, CARRY, c), ZERO, z), OVERFLOW, v), NEGATIV, n)

\* C18: for every A, M in 0..255 and carry-in C, ADC leaves
\* A = (A + M + C) mod 256, CARRY = (A + M + C > 255) and OVERFLOW = 1 exactly
\* when signed8(A) + signed8(M) + C is outside -128..127; ZERO and NEGATIVE
\* follow the result; DECIMAL, whichever way it is set, changes nothing, and
\* nothing else changes.
C18_AdcBinary ==
    AluExec(\h69)
        => LET sum == prev.register_a + AluOperand + CarryIn
               ssum == signed8(prev.register_a) + signed8(AluOperand) + CarryIn
           IN  cpu = [prev EXCEPT
                         !.register_a = sum % 256,
                         !.status = WithFlags(prev.status,
                                              sum > 255,
                                              sum % 256 = 0,
                                              ssum < 0 - 128 \/ ssum > 127,
                                              sum % 256 >= 128)]

\* $7F + $01 with DECIMAL set: A = $80, OVERFLOW and NEGATIVE set, CARRY clear
C18_Witness ==
    /\ AluExec(\h69)
    /\ prev.register_a = \h7F
    /\ AluOperand = \h01
    /\ CarryIn = 0
    /\ contains(prev.status, DECIMAL_MODE)
    /\ cpu.register_a = \h80
    /\ contains(cpu.status, OVERFLOW)
    /\ contains(cpu.status, NEGATIV)
    /\ ~contains(cpu.status, CARRY)
    /\ contains(cpu.status, DECIMAL_MODE)

\* C19: for every A, M in 0..255 and carry-in C, SBC gives exactly the state
\* ADC gives with the operand M XOR $FF (the operand the code forms,
\* -(M as i8) - 1 wrapping, is M XOR $FF for every M), so
\* A = (A - M - (1 - C)) mod 256 and CARRY = 1 exactly when A >= M + (1 - C).
C19_SbcIsAdcOfComplement ==
    AluExec(\hE9)
        => /\ i8_as_u8(wrapping_sub_i8(wrapping_neg_i8(signed8(AluOperand)), 1))
                  = BitXor(AluOperand, \hFF)
           /\ cpu = add_to_register_a(prev, BitXor(AluOperand, \hFF))
           /\ cpu = [adc([prev EXCEPT !.memory = Poke(prev.memory, prev.program_counter,
                                                       BitXor(AluOperand, \hFF))],
                         "Immediate")
                        EXCEPT !.memory = prev.memory]
           /\ cpu.register_a
                  = (prev.register_a - AluOperand - (1 - CarryIn) + 512) % 256
           /\ contains(cpu.status, CARRY)
                  <=> prev.register_a >= AluOperand + (1 - CarryIn)

\* $00 - $80 with CARRY set (no borrow in): A = $80, a borrow out (CARRY clear)
C19_Witness ==
    /\ AluExec(\hE9)
    /\ prev.register_a = 0
    /\ AluOperand = \h80
    /\ CarryIn = 1
    /\ cpu.register_a = \h80
    /\ ~contains(cpu.status, CARRY)
    /\ contains(cpu.status, OVERFLOW)

ComparedRegister ==
    CASE LastCall.data = \hC9 -> prev.register_a
      [] LastCall.data = \hE0 -> prev.register_x
      [] LastCall.data = \hC0 -> prev.register_y

\* C20: CMP, CPX and CPY with register value r and operand M set
\* CARRY = (M <= r), ZERO = (r = M), NEGATIVE = bit 7 of (r - M) mod 256 and
\* change nothing else: not the registers, OVERFLOW or memory.
C20_CompareFlags ==
    (AluExec(\hC9) \/ AluExec(\hE0) \/ AluExec(\hC0))
        => LET r == ComparedRegister
               diff == (r - AluOperand + 256) % 256
           IN  cpu = [prev EXCEPT
                         !.status = set(set(set(prev.status, CARRY, AluOperand <= r),
                                            ZERO, r = AluOperand),
                                        NEGATIV, diff >= 128)]

\* CPX with X = M = $40 while A and Y differ: CARRY and ZERO set, NEGATIVE clear
C20_Witness ==
    /\ AluExec(\hE0)
    /\ prev.register_x = \h40
    /\ AluOperand = \h40
    /\ prev.register_a # \h40
    /\ prev.register_y # \h40
    /\ contains(cpu.status, CARRY)
    /\ contains(cpu.status, ZERO)
    /\ ~contains(cpu.status, NEGATIV)
    /\ cpu.register_x = \h40

Executed(code) == AluExec(code)
OperandB == Peek(prev.memory, prev.program_counter)
PointerAt(p) == Peek(prev.memory, p % 256) + 256 * Peek(prev.memory, (p + 1) % 256)

\* C21, as stated: with Indirect_Y and operand byte b the effective address is
\* (the 16-bit pointer at b and (b + 1) mod 256 in page 0) + Y modulo 2^16: a
\* store writes A there and a load reads from there.  The code adds Y to b
\* and takes the pointer found at (b + Y) mod 256 as the address.
C21_IndirectYAddsYToPointer ==
    (Executed(\h91) \/ Executed(\hB1))
        => LET addr == (PointerAt(OperandB) + prev.register_y) % 65536
           IN  /\ get_operand_address(prev, "Indirect_Y") = addr
               /\ Executed(\h91)
                      => cpu = [prev EXCEPT
                                   !.memory = Poke(prev.memory, addr, prev.register_a)]
               /\ Executed(\hB1) => cpu.register_a = Peek(prev.memory, addr)

\* C22: zero-page indexing stays in page 0.  ZeroPage_X and ZeroPage_Y
\* resolve to (b + X) mod 256 and (b + Y) mod 256; Indirect_X takes its
\* pointer's low byte at p = (b + X) mod 256 and its high byte at
\* (p + 1) mod 256, from $0000 when p = $FF; resolving changes nothing: a
\* store changes the one byte addressed, a load the register and Z/N.
C22_ZeroPageIndexingWraps ==
    /\ (Executed(\h95) \/ Executed(\hB5))
           => /\ get_operand_address(prev, "ZeroPage_X")
                     = (OperandB + prev.register_x) % 256
              /\ get_operand_address(prev, "ZeroPage_X") \in 0..255
    /\ (Executed(\h96) \/ Executed(\hB6))
           => /\ get_operand_address(prev, "ZeroPage_Y")
                     = (OperandB + prev.register_y) % 256
              /\ get_operand_address(prev, "ZeroPage_Y") \in 0..255
    /\ (Executed(\h81) \/ Executed(\hA1))
           => get_operand_address(prev, "Indirect_X")
                  = PointerAt((OperandB + prev.register_x) % 256)
    /\ Executed(\h95)
           => cpu = [prev EXCEPT
                        !.memory = Poke(prev.memory, (OperandB + prev.register_x) % 256,
                                        prev.register_a)]
    /\ Executed(\h96)
           => cpu = [prev EXCEPT
                        !.memory = Poke(prev.memory, (OperandB + prev.register_y) % 256,
                                        prev.register_x)]
    /\ Executed(\h81)
           => cpu = [prev EXCEPT
                        !.memory = Poke(prev.memory,
                                        PointerAt((OperandB + prev.register_x) % 256),
                                        prev.register_a)]
    /\ Executed(\hB5)
           => /\ cpu.register_a = Peek(prev.memory, (OperandB + prev.register_x) % 256)
              /\ Unchanged({"register_x", "register_y", "stack_pointer",
                            "program_counter", "memory", "panicked"})
    /\ Executed(\hB6)
           => /\ cpu.register_x = Peek(prev.memory, (OperandB + prev.register_y) % 256)
              /\ Unchanged({"register_a", "register_y", "stack_pointer",
                            "program_counter", "memory", "panicked"})
    /\ Executed(\hA1)
           => /\ cpu.register_a
                     = Peek(prev.memory, PointerAt((OperandB + prev.register_x) % 256))
              /\ Unchanged({"register_x", "register_y", "stack_pointer",
                            "program_counter", "memory", "panicked"})

\* STA ($10,X) with X = $EF: the pointer is read at $FF and $00 ($0234), not
\* at $FF and $0100 ($0334)
C22_Witness ==
    /\ Executed(\h81)
    /\ OperandB = \h10
    /\ prev.register_x = \hEF
    /\ Peek(prev.memory, \h00FF) = \h34
    /\ Peek(prev.memory, \h0000) = \h02
    /\ Peek(prev.memory, \h0100) = \h03
    /\ Peek(cpu.memory, \h0234) = \hEF
    /\ Peek(cpu.memory, \h0334) = 0
    /\ cpu.program_counter = prev.program_counter

JmpIndirectTarget ==
    LET q == OperandWord
        q2 == IF q % 256 = 255 THEN q - 255 ELSE q + 1
    IN  Peek(prev.memory, q) + 256 * Peek(prev.memory, q2)

\* C23, as stated: JMP indirect with pointer q ends, at the callback, with
\* PC = memory[q] | memory[q'] << 8, q' = q + 1 unless the low byte of q is
\* $FF, and then q' = q & $FF00; for every q.  When that target is the
\* address of the JMP's own first operand byte the loop adds 2 to it.
C23_JmpIndirectTarget ==
    (AtCallback /\ Fetched = \h6C) => cpu.program_counter = JmpIndirectTarget

PhpPlpProgram == <<\h08, \h28, \h00>>     \* PHP; PLP; BRK

\* C24: after reset, with a callback that leaves P alone, P has BREAK2 set and
\* BREAK clear at every instruction boundary, also after PLP or RTI has
\* popped any byte; PHP pushes P with BREAK and BREAK2 set and leaves P as it
\* was; PHP then PLP restores P and SP.
C24_BreakFlags ==
    /\ (phase \in {"fetch", "callback"})
           => (contains(cpu.status, BREAK2) /\ ~contains(cpu.status, BREAK))
    /\ (AtCallback /\ Fetched = \h08)
           => /\ Peek(cpu.memory, StackAddress(prev.stack_pointer))
                     = insert(insert(prev.status, BREAK), BREAK2)
              /\ cpu.status = prev.status
              /\ cpu.stack_pointer = (prev.stack_pointer + 255) % 256
    /\ (AtCallback /\ Fetched \in {\h28, \h40})
           => /\ cpu.status
                     = PulledStatus(Peek(prev.memory, StackAddress(prev.stack_pointer + 1)))
              /\ \A f \in {CARRY, ZERO, INTERRUPT_DISABLE, DECIMAL_MODE, OVERFLOW, NEGATIV} :
                     contains(cpu.status, f)
                         <=> contains(Peek(prev.memory,
                                           StackAddress(prev.stack_pointer + 1)), f)
    /\ RanPrefix(PhpPlpProgram, 2, 2)
           => /\ Fetched = \h28
              /\ insert(cpu.status, BREAK) = Peek(cpu.memory, StackAddress(cpu.stack_pointer))
    \* with at most one assignment by the host, the record shows P and SP
    \* as they were before the run
    /\ (RanPrefix(PhpPlpProgram, 2, 2) /\ host_ops <= 1
            /\ Len(calls) = 2 /\ LastCall.op = "run")
           => /\ cpu.status = IF CallBefore.op = "status" THEN CallBefore.data
                              ELSE STATUS_RESET
              /\ cpu.stack_pointer = IF CallBefore.op = "stack_pointer"
                                     THEN CallBefore.data ELSE STACK_RESET

\* PLP pops $FF: P = $EF, BREAK cleared and the other bits as popped
C24_Witness ==
    /\ AtCallback
    /\ Fetched = \h28
    /\ Peek(prev.memory, StackAddress(prev.stack_pointer + 1)) = \hFF
    /\ prev.status = \hA4
    /\ cpu.status = \hEF

ShiftInput == IF LastCall.data \in {\h0A, \h4A, \h2A, \h6A}
              THEN prev.register_a ELSE Peek(prev.memory, OperandB)
ShiftResult ==
    CASE LastCall.data \in {\h0A, \h06} -> (ShiftInput * 2) % 256
      [] LastCall.data \in {\h4A, \h46} -> ShiftInput \div 2
      [] LastCall.data \in {\h2A, \h26} -> ((ShiftInput * 2) % 256) + CarryIn
      [] LastCall.data \in {\h6A, \h66} -> (ShiftInput \div 2) + 128 * CarryIn
ShiftCarry ==
    IF LastCall.data \in {\h0A, \h06, \h2A, \h26}
    THEN ShiftInput >= 128 ELSE ShiftInput % 2 = 1
ShiftStatus ==
    set(set(set(prev.status, CARRY, ShiftCarry), ZERO, ShiftResult = 0),
        NEGATIV, ShiftResult >= 128)

\* C25: ASL, LSR, ROL and ROR give, for every input byte d and carry-in c and
\* in both forms, ASL: C = d7, r = (d << 1) mod 256; LSR: C = d0, r = d >> 1;
\* ROL: C = d7, r = ((d << 1) mod 256) | c; ROR: C = d0, r = (d >> 1) | c << 7;
\* ZERO and NEGATIVE follow r.  The accumulator form puts r in A and writes no
\* memory; the memory form writes r at the effective address and leaves A.
C25_ShiftRotateForms ==
    /\ (\E code \in {\h0A, \h4A, \h2A, \h6A} : Executed(code))
           => cpu = [prev EXCEPT !.register_a = ShiftResult, !.status = ShiftStatus]
    /\ (\E code \in {\h06, \h46, \h26, \h66} : Executed(code))
           => cpu = [prev EXCEPT !.memory = Poke(prev.memory, OperandB, ShiftResult),
                                 !.status = ShiftStatus]
    /\ (\E code \in {\h4A, \h46} : Executed(code)) => ~contains(cpu.status, NEGATIV)

\* ROR $10 with $01 at $10 and carry set: $80 written back, CARRY and NEGATIVE
\* set, A as it was
C25_Witness ==
    /\ Executed(\h66)
    /\ OperandB = \h10
    /\ Peek(prev.memory, \h10) = \h01
    /\ CarryIn = 1
    /\ prev.register_a = \hFE
    /\ Peek(cpu.memory, \h10) = \h80
    /\ cpu.register_a = \hFE
    /\ contains(cpu.status, CARRY)
    /\ contains(cpu.status, NEGATIV)
    /\ ~contains(cpu.status, ZERO)

BitOperand ==
    Peek(prev.memory,
         IF LastCall.data = \h24 THEN OperandB
         ELSE OperandB + 256 * Peek(prev.memory, prev.program_counter + 1))

\* C26: BIT with operand M sets ZERO = (A AND M = 0), NEGATIVE = bit 7 of M
\* and OVERFLOW = bit 6 of M, clearing each flag whose condition is false,
\* and changes nothing else: not A, X, Y, SP, PC, CARRY or memory.
C26_BitFlagsOnly ==
    (Executed(\h24) \/ Executed(\h2C))
        => cpu = [prev EXCEPT
                     !.status =
                         set(set(set(prev.status,
                                     ZERO, \A i \in 0..7 :
                                               Bit(prev.register_a, i) * Bit(BitOperand, i) = 0),
                                 NEGATIV, Bit(BitOperand, 7) = 1),
                             OVERFLOW, Bit(BitOperand, 6) = 1)]

\* BIT $10 with A = $FE and $01 at $10, all three flags set before: ZERO stays
\* set, NEGATIVE and OVERFLOW are cleared, CARRY stays
C26_Witness ==
    /\ Executed(\h24)
    /\ OperandB = \h10
    /\ prev.register_a = \hFE
    /\ BitOperand = \h01
    /\ prev.status = \hE7
    /\ cpu.status = \h27
    /\ cpu.register_a = \hFE

====
